---- MODULE Spec2Model ----
(***************************************************************************)
(* Blockchain -> database synchronisation indexer of FractionalStay.       *)
(*                                                                         *)
(* The chain (an event source that mines blocks and may reorganise), the   *)
(* Supabase tables indexer_state, blockchain_events, properties,           *)
(* user_portfolio, marketplace_listings, marketplace_transactions,         *)
(* rent_deposits, reward_claims, users and transactions, the               *)
(* processContract loops of the indexer, one per watched contract, whose   *)
(* awaited calls interleave, and the API routes of the frontend, which     *)
(* write the same tables statement by statement.                           *)
(***************************************************************************)
EXTENDS Integers, Sequences, FiniteSets, TLC

(* ------------------------------ bounds --------------------------------- *)
MaxBlock == 3
MaxFork == 1
MaxFaults == 1
MaxTx == 5
MaxCycles == 2
MaxRequests == 2

(* operational parameters, scaled down *)
CheckpointInterval == 2
ConfirmationDepth == 1
MaxBatchSize == 3
MaxAttempts == 2

(* ------------------------------ constants ------------------------------ *)
PropertyShare == "0x3809"
RevenueSplitter == "0x9F5C"
Marketplace == "0xE3ee"
UserRegistry == "0xf779"
IdentitySBT == "0x6790"
ZKRegistry == "0x4c01"

(* the watched contracts, in the order of the list handed to Promise.all *)
ContractList == <<PropertyShare, RevenueSplitter, Marketplace, UserRegistry,
                  IdentitySBT, ZKRegistry>>
Contracts == {ContractList[k] : k \in 1..Len(ContractList)}

(* the processContract loops: the loop of the share contract whose history
   is recorded, the loops of an indexer process, one per watched contract,
   and the loop of a second driver instance of the share contract *)
Main == "main"
Share == "share"
Second == "share2"
Revenue == "revenue"
Market == "market"
Registry == "registry"
Sbt == "sbt"
Zk == "zk"
Drivers == {Main, Share, Second, Revenue, Market, Registry, Sbt, Zk}
Contract(d) ==
    CASE d = Revenue -> RevenueSplitter
      [] d = Market -> Marketplace
      [] d = Registry -> UserRegistry
      [] d = Sbt -> IdentitySBT
      [] d = Zk -> ZKRegistry
      [] OTHER -> PropertyShare

Holders == {"A", "B"}
Wallets == Holders \cup {Marketplace}

(* the address a mint transfers from *)
ZeroAddress == "0x0"
Accounts == Wallets \cup {ZeroAddress}

(* the seller of the property and the ward boy assigned to it *)
PropertyOwner == "S"
Manager == "W"
Users == Holders \cup {PropertyOwner}

Tokens == {1}
TotalShares == 20
PricePerShare == 100
GrossRent == 50
MiscFee == 5
PlatformFeePercent == 3
NoHash == <<>>
NoRow == [shares_owned |-> 0, last_updated |-> -1]
NoUser == [registered |-> FALSE, kyc_status |-> "NONE", proof_hash |-> "",
           sbt_token_id |-> 0]
NoSnapshot == <<>>
NoKey == <<>>
NoRequest == <<>>

VARIABLES
    latest,            \* chain: height of the head block
    chain,             \* chain: height -> fork the canonical block belongs to
    forks,             \* chain: number of reorganisations so far
    indexer_state,     \* db: contract_address -> checkpoint row
    blockchain_events, \* db: raw event log, in insertion order
    properties,        \* db: token_id -> available_shares, for the rows that exist
    user_portfolio,    \* db: <<wallet, token_id>> -> row or NoRow
    marketplace_listings,     \* db: listing_id -> status, for the rows that exist
    marketplace_transactions, \* db: trade history rows, in insertion order
    dead_letters,      \* db: raw logs that failed to decode, kept for inspection
    rent_deposits,     \* db: rent deposit rows, in insertion order
    reward_claims,     \* db: claim history rows, in insertion order
    users,             \* db: wallet -> user row or NoUser
    transactions,      \* db: transactions the frontend logged, in insertion order
    pc,                \* loop: position in the cycle
    loaded,            \* loop: the checkpoint the cycle loaded
    logs,              \* loop: logs fetched for the current batch
    idx,               \* loop: index of the next log to handle
    hstep,             \* loop: next awaited call of the handler of logs[idx]
    existing,          \* loop: the row the handler read with getPortfolio
    toBlock,           \* loop: upper end of the current batch
    reorgDetected,     \* loop: verdict of the reorg check of this cycle
    attempts,          \* loop: failed attempts of the RPC call of the current cycle
    cycles,            \* number of poll ticks of the loops whose history is not recorded
    posted,            \* frontend: <<route, transaction or wallet>> of the requests made so far
    request,           \* frontend: number of the request -> the request a route is handling, NoRequest before it is made, Answered after the response
    fetched,           \* history: height -> logs the main loop fetched last for it
    faults,            \* number of crashes and failed calls so far
    applied,           \* history: event key -> times the handler made its first derived write since the row of the event was last rolled back
    pre,               \* history: tables and checkpoint when the batch of the main loop started
    lastWrite,         \* history: operation that last wrote the checkpoint row of the share contract
    deleted,           \* history: raw rows removed by the last rollback of the main loop
    reorgedProcessed,  \* history: a processed block was replaced, not yet rolled back
    reorgedCheckpoint, \* history: the checkpoint block was replaced, checkpoint row not rewritten
    stable,            \* history: no reorganisation since the last reorg check
    crashPre,          \* history: tables and checkpoint at the start of a batch that was applied and lost its checkpoint save to a crash
    failedKey          \* history: key of the log whose derived write failed and has not been retried

chainVars == <<latest, chain, forks>>
otherTables == <<rent_deposits, reward_claims, users, transactions>>
dbVars == <<indexer_state, blockchain_events, properties, user_portfolio,
            marketplace_listings, marketplace_transactions, dead_letters, otherTables>>
frontVars == <<posted, request>>
localVars == <<pc, loaded, logs, idx, hstep, existing, toBlock, reorgDetected, attempts>>
histVars == <<fetched, faults, applied, pre, lastWrite, deleted, reorgedProcessed,
              reorgedCheckpoint, stable, crashPre, failedKey>>

vars == <<chainVars, dbVars, localVars, cycles, frontVars, histVars>>

Min(a, b) == IF a <= b THEN a ELSE b

(* ------------------------------ clock ---------------------------------- *)
(* the timestamp of the block of height b, on the scale of the clock below *)
blockTimestamp(b) == b

(* NOW(): the time of a write, given as the height of the chain head at the
   write, which lies between the timestamps of that block and of the next *)
NOW == latest

(* ------------------------------ chain client --------------------------- *)
getLatestBlockNumber == latest

getBlockHash(ch, h) == <<h, ch[h]>>

(* the number of transactions of the block of height h on fork v *)
NumTx(h, v) ==
    IF h = 0 THEN 0 ELSE IF v = 0 THEN MaxTx ELSE 1 + ((h + v) % MaxTx)

(* the number of transactions in the blocks below h *)
RECURSIVE TxBefore(_, _)
TxBefore(ch, h) == IF h <= 1 THEN 0 ELSE TxBefore(ch, h - 1) + NumTx(h - 1, ch[h - 1])

(* the transactions of the chain: the property is created, then rounds of a
   primary purchase by a holder, the KYC approval of that holder, a listing
   by that holder, the proof of that holder, the purchase of the listing by
   the other holder, a rent deposit by the ward boy, the payout of the
   rent, a claim by the other holder, the soulbound token of the first
   holder, a listing by the other holder and the cancellation of that
   listing *)
RoundLength == 11
Round(n) == (n - 2) \div RoundLength
Step(n) == (n - 2) % RoundLength

TxKind(n) ==
    IF n = 1 THEN "createProperty"
    ELSE CASE Step(n) = 0 -> "purchaseShares"
           [] Step(n) = 1 -> "approveKYC"
           [] Step(n) = 2 -> "createListing"
           [] Step(n) = 3 -> "submitProof"
           [] Step(n) = 4 -> "purchase"
           [] Step(n) = 5 -> "depositRentByManager"
           [] Step(n) = 6 -> "callOutPay"
           [] Step(n) = 7 -> "claim"
           [] Step(n) = 8 -> "mintSBT"
           [] Step(n) = 9 -> "createListing"
           [] OTHER -> "cancelListing"

Seller(n) == IF Round(n) % 2 = 0 THEN "A" ELSE "B"
Buyer(n) == IF Round(n) % 2 = 0 THEN "B" ELSE "A"
PurchaseAmount(n, v) == 1 + ((Round(n) + v) % 2)
ListingAmount == 1

(* the holder who lists in transaction n, and the id of the listing that a
   createListing, purchase or cancelListing transaction is about *)
Lister(n) == IF Step(n) \in {2, 4} THEN Seller(n) ELSE Buyer(n)
ListingId(n) == 2 * Round(n) + (IF Step(n) \in {2, 4} THEN 0 ELSE 1)

(* callOutPay: the platform fee is deducted from the deposited amount *)
NetAmount == GrossRent - MiscFee
PlatformFee == (NetAmount * PlatformFeePercent) \div 100
NetForDistribution == NetAmount - PlatformFee

(* the transactions that emit one more log, whose data does not match an
   event signature of the contract *)
Malformed(h, v, i) == h > 0 /\ i = 1 /\ (h + v) % 3 = 2

(* the log with index li of the block of height h on fork v; a transaction
   emits up to three logs *)
TxIndex(li) == ((li - 1) \div 3) + 1

Log(name, contract, h, v, li, args) ==
    [event_name |-> name,
     contract_address |-> contract,
     block_number |-> h,
     block_hash |-> <<h, v>>,
     transaction_hash |-> <<h, v, TxIndex(li)>>,
     log_index |-> li,
     args |-> args]

(* ERC-1155 TransferSingle(operator, from, to, id, value) *)
TransferSingle(h, v, li, operator, from, to, amount) ==
    Log("TransferSingle", PropertyShare, h, v, li,
        [operator |-> operator, id |-> 1, from |-> from, to |-> to, value |-> amount])

(* the logs of transaction n, the i-th of block h of fork v *)
TxLogs(n, h, v, i) ==
    LET li == 3 * (i - 1)
        emitted ==
          CASE TxKind(n) = "createProperty" ->
                 <<Log("PropertyCreated", PropertyShare, h, v, li + 1,
                       [tokenId |-> 1, totalShares |-> TotalShares])>>
            [] TxKind(n) = "purchaseShares" ->
                 <<TransferSingle(h, v, li + 1, Seller(n), ZeroAddress, Seller(n),
                                  PurchaseAmount(n, v)),
                   Log("SharesPurchased", PropertyShare, h, v, li + 2,
                       [tokenId |-> 1, buyer |-> Seller(n),
                        amount |-> PurchaseAmount(n, v),
                        totalPrice |-> PurchaseAmount(n, v) * PricePerShare])>>
            [] TxKind(n) = "depositRentByManager" ->
                 <<Log("FundsDepositedByManager", RevenueSplitter, h, v, li + 1,
                       [tokenId |-> 1, manager |-> Manager, netAmount |-> NetAmount,
                        grossRent |-> GrossRent, miscFee |-> MiscFee])>>
            [] TxKind(n) = "approveKYC" ->
                 <<Log("KYCApproved", UserRegistry, h, v, li + 1, [user |-> Seller(n)])>>
            [] TxKind(n) = "createListing" ->
                 <<TransferSingle(h, v, li + 1, Marketplace, Lister(n), Marketplace,
                                  ListingAmount),
                   Log("ListingCreated", Marketplace, h, v, li + 2,
                       [listingId |-> ListingId(n), seller |-> Lister(n), tokenId |-> 1,
                        amount |-> ListingAmount, pricePerShare |-> PricePerShare])>>
            [] TxKind(n) = "purchase" ->
                 <<TransferSingle(h, v, li + 1, Marketplace, Marketplace, Buyer(n),
                                  ListingAmount),
                   Log("ListingPurchased", Marketplace, h, v, li + 2,
                       [listingId |-> ListingId(n), buyer |-> Buyer(n), tokenId |-> 1,
                        amount |-> ListingAmount,
                        totalPrice |-> ListingAmount * PricePerShare])>>
            [] TxKind(n) = "callOutPay" ->
                 <<Log("PayoutTriggered", RevenueSplitter, h, v, li + 1,
                       [tokenId |-> 1, grossAmount |-> NetAmount,
                        platformFee |-> PlatformFee,
                        netForDistribution |-> NetForDistribution])>>
            [] TxKind(n) = "claim" ->
                 <<Log("RewardClaimed", RevenueSplitter, h, v, li + 1,
                       [tokenId |-> 1, holder |-> Buyer(n),
                        amount |-> (NetForDistribution * ListingAmount)
                                      \div TotalShares])>>
            [] TxKind(n) = "submitProof" ->
                 <<Log("ProofSubmitted", ZKRegistry, h, v, li + 1,
                       [user |-> Seller(n), proofHash |-> "proof"])>>
            [] TxKind(n) = "mintSBT" ->
                 <<Log("SbtMinted", IdentitySBT, h, v, li + 1,
                       [user |-> Seller(n), tokenId |-> Round(n) + 1])>>
            [] OTHER ->
                 <<TransferSingle(h, v, li + 1, Marketplace, Marketplace, Lister(n),
                                  ListingAmount)>>
    IN IF Malformed(h, v, i)
       THEN emitted \o <<Log("Unknown", PropertyShare, h, v, li + 3, [data |-> li])>>
       ELSE emitted

RECURSIVE TxsLogs(_, _, _, _)
TxsLogs(first, h, v, i) ==
    IF i > NumTx(h, v) THEN <<>>
    ELSE TxLogs(first + i, h, v, i) \o TxsLogs(first, h, v, i + 1)

(* all logs of the block of height h, in emission order *)
BlockLogs(ch, h) == IF h <= 0 THEN <<>> ELSE TxsLogs(TxBefore(ch, h), h, ch[h], 1)

(* the logs of one contract in the block of height h *)
LogsAt(ch, contract, h) ==
    SelectSeq(BlockLogs(ch, h), LAMBDA l : l.contract_address = contract)

RECURSIVE getLogs(_, _, _, _)
getLogs(ch, contract, fromBlock, to) ==
    IF fromBlock > to THEN <<>>
    ELSE LogsAt(ch, contract, fromBlock) \o getLogs(ch, contract, fromBlock + 1, to)

(* ------------------------------ event decoder -------------------------- *)
(* the events each loop has a handler for *)
KnownEvents(contract) ==
    CASE contract = PropertyShare ->
           {"PropertyCreated", "SharesPurchased", "TransferSingle"}
      [] contract = RevenueSplitter ->
           {"FundsDepositedByManager", "PayoutTriggered", "RewardClaimed"}
      [] contract = Marketplace -> {"ListingCreated", "ListingPurchased"}
      [] contract = UserRegistry -> {"KYCApproved"}
      [] contract = IdentitySBT -> {"SbtMinted"}
      [] contract = ZKRegistry -> {"ProofSubmitted"}
      [] OTHER -> {}

(* decode(RawLog, eventABI) -> DecodedEvent | DecodeError *)
decode(log) ==
    IF log.event_name \in KnownEvents(log.contract_address)
    THEN [tag |-> "DecodedEvent", event_name |-> log.event_name, args |-> log.args]
    ELSE [tag |-> "DecodeError"]

Decodable(log) == decode(log).tag = "DecodedEvent"

isAddress(w) == w \in Accounts \cup Users \cup {Manager}

(* the validation of the event arguments before processing *)
ValidArgs(log) ==
    CASE log.event_name = "SharesPurchased" ->
           log.args.amount > 0 /\ isAddress(log.args.buyer)
      [] log.event_name = "ListingPurchased" ->
           log.args.amount > 0 /\ isAddress(log.args.buyer)
      [] log.event_name = "ListingCreated" ->
           log.args.amount > 0 /\ isAddress(log.args.seller)
      [] log.event_name = "TransferSingle" ->
           log.args.value > 0 /\ isAddress(log.args.from) /\ isAddress(log.args.to)
      [] log.event_name = "FundsDepositedByManager" ->
           log.args.netAmount > 0 /\ isAddress(log.args.manager)
      [] log.event_name = "PayoutTriggered" -> log.args.grossAmount > 0
      [] log.event_name = "RewardClaimed" ->
           log.args.amount > 0 /\ isAddress(log.args.holder)
      [] log.event_name \in {"KYCApproved", "SbtMinted", "ProofSubmitted"} ->
           isAddress(log.args.user)
      [] OTHER -> TRUE

(* ------------------------------ tables --------------------------------- *)
Key(e) == <<e.transaction_hash, e.log_index>>

MaxLogIndex == 3 * MaxTx

AllKeys == {<<<<h, v, TxIndex(i)>>, i>> :
               h \in 0..MaxBlock, v \in 0..MaxFork, i \in 1..MaxLogIndex}

Row(log) ==
    [event_name |-> log.event_name,
     contract_address |-> log.contract_address,
     block_number |-> log.block_number,
     transaction_hash |-> log.transaction_hash,
     log_index |-> log.log_index,
     args |-> log.args]

Recorded(evs, log) == \E k \in 1..Len(evs) : Key(evs[k]) = Key(log)

(* variant: a duplicate replaces the stored row (upsert) *)
storeEventReplaces(evs, log) ==
    Append(SelectSeq(evs, LAMBDA e : Key(e) # Key(log)), Row(log))

(* variant: the table has no unique constraint, a duplicate is inserted *)
storeEventAppends(evs, log) == Append(evs, Row(log))

(* insert into blockchain_events; a duplicate (transaction_hash, log_index)
   violates the unique constraint and the insert fails silently *)
storeEvent(evs, log) == IF Recorded(evs, log) THEN evs ELSE Append(evs, Row(log))

(* insert into properties; the row of an existing token_id is left alone *)
insertProperty(props, args) ==
    IF args.tokenId \in DOMAIN props
    THEN props
    ELSE [t \in DOMAIN props \cup {args.tokenId} |->
             IF t = args.tokenId THEN args.totalShares ELSE props[t]]

(* available_shares = available_shares - amount where token_id = tokenId *)
updateProperties(props, args) ==
    IF args.tokenId \in DOMAIN props
    THEN [props EXCEPT ![args.tokenId] = @ - args.amount]
    ELSE props

getPortfolio(pf, wallet, tokenId) == pf[<<wallet, tokenId>>]

(* variant: the update creates the row when there is none *)
updatePortfolioCreates(pf, wallet, tokenId, amount, at) ==
    [pf EXCEPT ![<<wallet, tokenId>>] =
        [shares_owned |-> @.shares_owned + amount, last_updated |-> at]]

(* shares_owned = shares_owned + amount on the row of (wallet, tokenId);
   without such a row the update changes nothing *)
updatePortfolio(pf, wallet, tokenId, amount, at) ==
    IF pf[<<wallet, tokenId>>] = NoRow THEN pf
    ELSE [pf EXCEPT ![<<wallet, tokenId>>] =
             [shares_owned |-> @.shares_owned + amount, last_updated |-> at]]

createPortfolio(pf, wallet, tokenId, amount, at) ==
    [pf EXCEPT ![<<wallet, tokenId>>] =
        [shares_owned |-> amount, last_updated |-> at]]

(* existing ? updatePortfolio : createPortfolio, on the row read before *)
writePortfolio(pf, row, wallet, tokenId, amount, at) ==
    IF row # NoRow
    THEN updatePortfolio(pf, wallet, tokenId, amount, at)
    ELSE createPortfolio(pf, wallet, tokenId, amount, at)

(* read and write without another call in between *)
upsertPortfolio(pf, wallet, tokenId, amount, at) ==
    writePortfolio(pf, getPortfolio(pf, wallet, tokenId), wallet, tokenId, amount, at)

(* insert into marketplace_listings (status ACTIVE); listing_id is unique *)
insertListing(ls, args) ==
    IF args.listingId \in DOMAIN ls
    THEN ls
    ELSE [k \in DOMAIN ls \cup {args.listingId} |->
             IF k = args.listingId THEN "ACTIVE" ELSE ls[k]]

(* update marketplace_listings set status = SOLD where listing_id = listingId *)
updateListing(ls, args) ==
    IF args.listingId \in DOMAIN ls THEN [ls EXCEPT ![args.listingId] = "SOLD"] ELSE ls

(* insert into marketplace_transactions *)
insertTransaction(txs, args, txHash) ==
    Append(txs, [listing_id |-> args.listingId, buyer_wallet |-> args.buyer,
                 shares_amount |-> args.amount, total_price |-> args.totalPrice,
                 transaction_hash |-> txHash])

(* insert into rent_deposits (status PENDING) *)
insertDeposit(deps, args, txHash) ==
    Append(deps, [token_id |-> args.tokenId, manager |-> args.manager,
                  net_amount |-> args.netAmount, status |-> "PENDING",
                  transaction_hash |-> txHash])

(* update rent_deposits set status = DISTRIBUTED, for the pending deposits
   of the token *)
updateDeposits(deps, args) ==
    IF deps = <<>> THEN deps
    ELSE [k \in 1..Len(deps) |->
             IF deps[k].token_id = args.tokenId /\ deps[k].status = "PENDING"
             THEN [deps[k] EXCEPT !.status = "DISTRIBUTED"]
             ELSE deps[k]]

(* insert into reward_claims *)
insertClaim(cls, args, txHash) ==
    Append(cls, [token_id |-> args.tokenId, holder |-> args.holder,
                 amount |-> args.amount, transaction_hash |-> txHash])

(* update users where wallet_address = user: the KYC status, the proof hash
   or the soulbound token the event reports; without such a row the update
   changes nothing *)
updateUser(us, log) ==
    IF ~us[log.args.user].registered THEN us
    ELSE CASE log.event_name = "KYCApproved" ->
                [us EXCEPT ![log.args.user].kyc_status = "APPROVED"]
           [] log.event_name = "ProofSubmitted" ->
                [us EXCEPT ![log.args.user].proof_hash = log.args.proofHash]
           [] log.event_name = "SbtMinted" ->
                [us EXCEPT ![log.args.user].sbt_token_id = log.args.tokenId]
           [] OTHER -> us

(* ------------------------------ handlers ------------------------------- *)
(* The handlers on a database value
   db = [events, properties, portfolio, listings, transactions, deposits,
   claims, users], run from the first awaited call to the last with no
   other writer in between; at is the time of the writes. *)
handlePropertyCreated(db, log, at) ==
    LET d1 == [db EXCEPT !.events = storeEvent(@, log)]
    IN [d1 EXCEPT !.properties = insertProperty(@, log.args)]

handleSharesPurchased(db, log, at) ==
    LET d1 == [db EXCEPT !.events = storeEvent(@, log)]
        d2 == [d1 EXCEPT !.properties = updateProperties(@, log.args)]
    IN [d2 EXCEPT !.portfolio =
           upsertPortfolio(@, log.args.buyer, log.args.tokenId, log.args.amount, at)]

(* TransferSingle: the sender's position decreases, the receiver's increases *)
handleTransferSingle(db, log, at) ==
    LET d1 == [db EXCEPT !.events = storeEvent(@, log)]
        d2 == [d1 EXCEPT !.portfolio =
                  updatePortfolio(@, log.args.from, log.args.id, 0 - log.args.value, at)]
    IN [d2 EXCEPT !.portfolio =
           upsertPortfolio(@, log.args.to, log.args.id, log.args.value, at)]

handleListingCreated(db, log, at) ==
    LET d1 == [db EXCEPT !.events = storeEvent(@, log)]
    IN [d1 EXCEPT !.listings = insertListing(@, log.args)]

handleListingPurchased(db, log, at) ==
    LET d1 == [db EXCEPT !.events = storeEvent(@, log)]
        d2 == [d1 EXCEPT !.listings = updateListing(@, log.args)]
        d3 == [d2 EXCEPT !.transactions =
                  insertTransaction(@, log.args, log.transaction_hash)]
    IN [d3 EXCEPT !.portfolio =
           upsertPortfolio(@, log.args.buyer, log.args.tokenId, log.args.amount, at)]

handleFundsDepositedByManager(db, log, at) ==
    LET d1 == [db EXCEPT !.events = storeEvent(@, log)]
    IN [d1 EXCEPT !.deposits = insertDeposit(@, log.args, log.transaction_hash)]

handlePayoutTriggered(db, log, at) ==
    LET d1 == [db EXCEPT !.events = storeEvent(@, log)]
    IN [d1 EXCEPT !.deposits = updateDeposits(@, log.args)]

handleRewardClaimed(db, log, at) ==
    LET d1 == [db EXCEPT !.events = storeEvent(@, log)]
    IN [d1 EXCEPT !.claims = insertClaim(@, log.args, log.transaction_hash)]

handleKYCApproved(db, log, at) ==
    LET d1 == [db EXCEPT !.events = storeEvent(@, log)]
    IN [d1 EXCEPT !.users = updateUser(@, log)]

handleSbtMinted(db, log, at) ==
    LET d1 == [db EXCEPT !.events = storeEvent(@, log)]
    IN [d1 EXCEPT !.users = updateUser(@, log)]

handleProofSubmitted(db, log, at) ==
    LET d1 == [db EXCEPT !.events = storeEvent(@, log)]
    IN [d1 EXCEPT !.users = updateUser(@, log)]

(* the handler of a decoded log, by event name; invalid arguments throw
   before anything is written *)
handle(db, log, at) ==
    IF ~ValidArgs(log) THEN db
    ELSE CASE log.event_name = "PropertyCreated" -> handlePropertyCreated(db, log, at)
           [] log.event_name = "SharesPurchased" -> handleSharesPurchased(db, log, at)
           [] log.event_name = "TransferSingle" -> handleTransferSingle(db, log, at)
           [] log.event_name = "ListingCreated" -> handleListingCreated(db, log, at)
           [] log.event_name = "ListingPurchased" -> handleListingPurchased(db, log, at)
           [] log.event_name = "FundsDepositedByManager" ->
                handleFundsDepositedByManager(db, log, at)
           [] log.event_name = "PayoutTriggered" -> handlePayoutTriggered(db, log, at)
           [] log.event_name = "RewardClaimed" -> handleRewardClaimed(db, log, at)
           [] log.event_name = "KYCApproved" -> handleKYCApproved(db, log, at)
           [] log.event_name = "SbtMinted" -> handleSbtMinted(db, log, at)
           [] log.event_name = "ProofSubmitted" -> handleProofSubmitted(db, log, at)
           [] OTHER -> db

(* the number of awaited calls of the handler of a log *)
NumCalls(log) ==
    CASE log.event_name = "PropertyCreated" -> 2
      [] log.event_name = "SharesPurchased" -> 4
      [] log.event_name = "TransferSingle" -> 4
      [] log.event_name = "ListingCreated" -> 2
      [] log.event_name = "ListingPurchased" -> 5
      [] OTHER -> 2

RECURSIVE processLogs(_, _, _)
processLogs(db, ls, at) ==
    IF ls = <<>> THEN db
    ELSE processLogs(IF Decodable(Head(ls)) THEN handle(db, Head(ls), at) ELSE db,
                     Tail(ls), at)

InitProperties == [t \in {} |-> 0]
InitPortfolio == [k \in Accounts \X Tokens |-> NoRow]
InitListings == [k \in {} |-> "ACTIVE"]

(* the users table after the holders registered through the frontend *)
InitUsers ==
    [u \in Users |-> IF u \in Holders
                     THEN [NoUser EXCEPT !.registered = TRUE, !.kyc_status = "PENDING"]
                     ELSE NoUser]

EmptyDb == [events |-> <<>>, properties |-> InitProperties, portfolio |-> InitPortfolio,
            listings |-> InitListings, transactions |-> <<>>, deposits |-> <<>>,
            claims |-> <<>>, users |-> InitUsers]

Db == [events |-> blockchain_events, properties |-> properties, portfolio |-> user_portfolio,
       listings |-> marketplace_listings, transactions |-> marketplace_transactions,
       deposits |-> rent_deposits, claims |-> reward_claims, users |-> users]
Derived(db) == [properties |-> db.properties, portfolio |-> db.portfolio,
                listings |-> db.listings, transactions |-> db.transactions,
                deposits |-> db.deposits, claims |-> db.claims, users |-> db.users]

(* rebuilding the application tables from the raw event log *)
Replay(evs, at) == Derived(processLogs(EmptyDb, evs, at))

Below(evs, b) == SelectSeq(evs, LAMBDA e : e.block_number < b)

(* variant: the delete keeps the rows of block b *)
deleteEventsAbove(evs, b) == SelectSeq(evs, LAMBDA e : e.block_number <= b)

(* DELETE FROM blockchain_events WHERE block_number >= b *)
deleteEventsFrom(evs, b) == Below(evs, b)

(* DELETE FROM user_portfolio WHERE last_updated >= timestamp of block b *)
deletePortfolioFrom(pf, b) ==
    [k \in DOMAIN pf |->
        IF pf[k] # NoRow /\ pf[k].last_updated >= blockTimestamp(b) THEN NoRow ELSE pf[k]]

(* the cascade of the rollback on the other tables the handlers insert
   into (marketplace_transactions, rent_deposits, reward_claims): the rows
   that carry the transaction hash of a block at or above b *)
cascadeDelete(txs, b) == SelectSeq(txs, LAMBDA t : t.transaction_hash[1] < b)

(* the zero-valued row of indexer_state: last_processed_block,
   last_block_hash, last_checkpoint_block, last_checkpoint_hash, updated_at *)
ZeroCheckpoint ==
    [last_processed_block |-> 0, last_block_hash |-> NoHash,
     last_checkpoint_block |-> 0, last_checkpoint_hash |-> NoHash,
     updated_at |-> 0]

(* variant: the cursor is rewound one block too far *)
rewindTooFar(row, st) ==
    [row EXCEPT !.last_processed_block = st.last_checkpoint_block - 2]

(* the rollback of the reorg procedure on a checkpoint row: UPDATE
   indexer_state SET last_processed_block = checkpoint - 1, where the
   checkpoint is the one of the state st the cycle loaded; the other
   columns of the row, updated_at among them, stay as they are *)
rewind(row, st) == [row EXCEPT !.last_processed_block = st.last_checkpoint_block - 1]

(* variant: the checkpoint is taken one block ahead of the batch *)
checkpointHeightAhead(fromBlock, to) == to + 1

(* variant: the checkpoint is taken at the end of every batch *)
checkpointHeightEnd(fromBlock, to) == to

(* variant: the first multiple of the checkpoint interval in the batch *)
checkpointHeightFirst(fromBlock, to) ==
    LET ms == {h \in fromBlock..to : h >= 0 /\ h % CheckpointInterval = 0}
    IN IF ms = {} THEN -1 ELSE CHOOSE h \in ms : \A g \in ms : g >= h

(* largest multiple of the checkpoint interval in fromBlock..to, or -1 *)
checkpointHeight(fromBlock, to) ==
    LET ms == {h \in fromBlock..to : h >= 0 /\ h % CheckpointInterval = 0}
    IN IF ms = {} THEN -1 ELSE CHOOSE h \in ms : \A g \in ms : g <= h

(* variant: the save moves the cursor by one block only *)
advanceOneBlock(st, ch, fromBlock, to, at) ==
    LET c == checkpointHeight(fromBlock, to)
    IN [last_processed_block |-> fromBlock,
        last_block_hash |-> getBlockHash(ch, fromBlock),
        last_checkpoint_block |-> IF c >= 0 THEN c ELSE st.last_checkpoint_block,
        last_checkpoint_hash |-> IF c >= 0 THEN getBlockHash(ch, c) ELSE st.last_checkpoint_hash,
        updated_at |-> at]

(* variant: the save keeps the stored checkpoint hash *)
advanceKeepsHash(st, ch, fromBlock, to, at) ==
    LET c == checkpointHeight(fromBlock, to)
    IN [last_processed_block |-> to,
        last_block_hash |-> getBlockHash(ch, to),
        last_checkpoint_block |-> IF c >= 0 THEN c ELSE st.last_checkpoint_block,
        last_checkpoint_hash |-> st.last_checkpoint_hash,
        updated_at |-> at]

(* the checkpoint row after a batch fromBlock..to has been applied, saved
   at the time at *)
advance(st, ch, fromBlock, to, at) ==
    LET c == checkpointHeight(fromBlock, to)
    IN [last_processed_block |-> to,
        last_block_hash |-> getBlockHash(ch, to),
        last_checkpoint_block |-> IF c >= 0 THEN c ELSE st.last_checkpoint_block,
        last_checkpoint_hash |-> IF c >= 0 THEN getBlockHash(ch, c) ELSE st.last_checkpoint_hash,
        updated_at |-> at]

(* variant: the driver processes up to the chain head *)
confirmedHeadNoDepth(head) == head

(* the highest block with enough confirmations: latest block minus the
   confirmations required *)
confirmedHead(head) == head - ConfirmationDepth

(* variant: one confirmation less than required *)
computeToBlockOffByOne(head, st) ==
    Min(confirmedHead(head) + 1, st.last_processed_block + MaxBatchSize)

(* step 3: toBlock = min(latest - confirmationDepth, lastProcessedBlock +
   maxBatchSize) *)
computeToBlock(head, st) ==
    Min(confirmedHead(head), st.last_processed_block + MaxBatchSize)

(* variant: the chain's hash is compared with the stored hash of the last
   processed block *)
hashMismatchWrongColumn(ch, st) ==
    getBlockHash(ch, st.last_checkpoint_block) # st.last_block_hash

(* variant: the check is skipped when no block above the checkpoint has
   been processed *)
hashMismatchAboveCheckpoint(ch, st) ==
    st.last_processed_block > st.last_checkpoint_block /\
    getBlockHash(ch, st.last_checkpoint_block) # st.last_checkpoint_hash

hashMismatch(ch, st) ==
    getBlockHash(ch, st.last_checkpoint_block) # st.last_checkpoint_hash

(* ------------------------------ manual backfill ------------------------ *)
(* one batch fromBlock..to of a contract on a database snapshot: fetch the
   logs, decode and apply each of them, then update the checkpoint row *)
processBatch(s, ch, contract, fromBlock, to, at) ==
    [state |-> advance(s.state, ch, fromBlock, to, at),
     db |-> processLogs(s.db, getLogs(ch, contract, fromBlock, to), at)]

(* CONFIG.startBlock: the block the indexer starts from *)
StartBlock == 0

Max(a, b) == IF a >= b THEN a ELSE b

(* npm run backfill: the batch logic over the explicit range a..b, in
   batches of the configured size, without reorg detection or polling; run
   while the chain head is at height head, it starts at the configured
   start block at the earliest and stops at the highest block with the
   required confirmations; at is the time of the writes *)
RECURSIVE backfillFrom(_, _, _, _, _, _, _)
backfillFrom(s, ch, contract, a, b, head, at) ==
    LET last == Min(b, confirmedHead(head))
    IN IF a > last THEN s
       ELSE LET to == Min(last, a + MaxBatchSize - 1)
            IN backfillFrom(processBatch(s, ch, contract, a, to, at), ch, contract,
                            to + 1, b, head, at)

backfill(s, ch, contract, a, b, head) ==
    backfillFrom(s, ch, contract, Max(a, StartBlock), b, head, head)

(* ------------------------------ frontend ------------------------------- *)
(* the seller's position after a sale: reduced, or removed when nothing is left *)
reducePortfolio(pf, wallet, tokenId, amount, at) ==
    IF pf[<<wallet, tokenId>>] = NoRow THEN pf
    ELSE IF pf[<<wallet, tokenId>>].shares_owned <= amount
         THEN [pf EXCEPT ![<<wallet, tokenId>>] = NoRow]
         ELSE updatePortfolio(pf, wallet, tokenId, 0 - amount, at)

(* update marketplace_listings set status = CANCELLED where listing_id =
   listingId; the row is kept *)
cancelListing(ls, args) ==
    IF args.listingId \in DOMAIN ls THEN [ls EXCEPT ![args.listingId] = "CANCELLED"] ELSE ls

(* insert into users, for a wallet that has no row *)
createUser(us, wallet) ==
    IF us[wallet].registered THEN us
    ELSE [us EXCEPT ![wallet] = [NoUser EXCEPT !.registered = TRUE]]

(* insert into transactions; tx_hash is unique: the insert of a transaction
   that has a row adds none *)
logTransaction(txs, body) ==
    IF \E k \in 1..Len(txs) : txs[k].transaction_hash = body.transactionHash
    THEN txs
    ELSE Append(txs, [wallet_address |-> body.buyer, token_id |-> body.tokenId,
                      shares_amount |-> body.amount,
                      transaction_hash |-> body.transactionHash])

(* insert into properties by the route: the columns of the row are those of
   the request body; available_shares is not among them and takes the
   default 0 of the column; the row of an existing token_id is left alone *)
createProperty(props, body) ==
    IF body.tokenId \in DOMAIN props
    THEN props
    ELSE [t \in DOMAIN props \cup {body.tokenId} |->
             IF t = body.tokenId THEN 0 ELSE props[t]]

(* update users set kyc_status = APPROVED, proof_hash, sbt_token_id where
   wallet_address = user; without such a row the update changes nothing *)
approveUser(us, body) ==
    IF ~us[body.user].registered THEN us
    ELSE [us EXCEPT ![body.user].kyc_status = "APPROVED",
                    ![body.user].proof_hash = body.proofHash,
                    ![body.user].sbt_token_id = body.sbtTokenId]

(* the buyer's position written by the purchase route, by the statement
   chosen on the row read before: UPDATE shares_owned = shares_owned +
   amount when a row was read, which changes nothing when the row is gone;
   INSERT when none was read, which adds nothing when another writer has
   created the row since *)
writeBuyer(pf, row, wallet, tokenId, amount, at) ==
    IF row # NoRow THEN updatePortfolio(pf, wallet, tokenId, amount, at)
    ELSE IF pf[<<wallet, tokenId>>] # NoRow THEN pf
    ELSE createPortfolio(pf, wallet, tokenId, amount, at)

(* the listing listingId on the marketplace contract when the head of the
   chain ch is at height head: its status, or NONE when no transaction has
   created it *)
chainListing(ch, head, listingId) ==
    LET kinds == {TxKind(n) : n \in {m \in 1..TxBefore(ch, head + 1) :
                                        ListingId(m) = listingId}}
    IN IF "createListing" \notin kinds THEN "NONE"
       ELSE IF "purchase" \in kinds THEN "SOLD"
       ELSE IF "cancelListing" \in kinds THEN "CANCELLED"
       ELSE "ACTIVE"

(* the row of the listing written with the status the contract reports; a
   listing the contract does not have is not written *)
syncListing(ls, ch, head, listingId) ==
    LET status == chainListing(ch, head, listingId)
    IN IF status = "NONE" THEN ls
       ELSE [k \in DOMAIN ls \cup {listingId} |->
                IF k = listingId THEN status ELSE ls[k]]

(* the API routes the frontend calls when a transaction of the given kind
   is confirmed *)
RoutesOf(kind) ==
    CASE kind = "createProperty" -> {"POST /api/properties/create"}
      [] kind = "purchaseShares" ->
           {"PATCH /api/properties/[tokenId]", "POST /api/transactions/log"}
      [] kind \in {"approveKYC", "submitProof", "mintSBT"} ->
           {"POST /api/admin/kyc/approve"}
      [] kind = "createListing" ->
           {"POST /api/marketplace/create", "POST /api/marketplace/sync-from-blockchain"}
      [] kind = "purchase" -> {"POST /api/marketplace/purchase"}
      [] kind = "cancelListing" -> {"POST /api/marketplace/cancel"}
      [] OTHER -> {}

(* the API routes that write the tables of the indexer *)
Routes ==
    {"POST /api/users/register"} \cup
    UNION {RoutesOf(kind) : kind \in {"createProperty", "purchaseShares", "approveKYC",
                                     "submitProof", "mintSBT", "createListing",
                                     "purchase", "cancelListing"}}

(* the body of the request for transaction n, the i-th of block h on fork v *)
Body(n, h, v, i) ==
    LET amount == IF TxKind(n) = "purchaseShares" THEN PurchaseAmount(n, v)
                  ELSE ListingAmount
    IN [listingId |-> ListingId(n),
        tokenId |-> 1,
        totalShares |-> TotalShares,
        buyer |-> IF TxKind(n) = "purchaseShares" THEN Seller(n) ELSE Buyer(n),
        seller |-> IF TxKind(n) \in {"createProperty", "purchaseShares"}
                   THEN PropertyOwner ELSE Lister(n),
        user |-> Seller(n),
        proofHash |-> "proof",
        sbtTokenId |-> Round(n) + 1,
        amount |-> amount,
        totalPrice |-> amount * PricePerShare,
        transactionHash |-> <<h, v, i>>]

(* POST /api/marketplace/purchase with every statement succeeding and no
   other writer in between *)
purchaseApi(db, body, at) ==
    LET d1 == [db EXCEPT !.listings = updateListing(@, body)]
        d2 == [d1 EXCEPT !.portfolio =
                  upsertPortfolio(@, body.buyer, body.tokenId, body.amount, at)]
        d3 == [d2 EXCEPT !.portfolio =
                  reducePortfolio(@, body.seller, body.tokenId, body.amount, at)]
    IN [d3 EXCEPT !.transactions = insertTransaction(@, body, body.transactionHash)]

(* ------------------------------ state ---------------------------------- *)
Snapshot ==
    [state |-> indexer_state[PropertyShare],
     events |-> blockchain_events,
     properties |-> properties,
     portfolio |-> user_portfolio,
     listings |-> marketplace_listings,
     transactions |-> marketplace_transactions,
     deposits |-> rent_deposits,
     claims |-> reward_claims,
     users |-> users]

NotFetched == [hash |-> NoHash, logs |-> <<>>]

(* a database and its checkpoint rows *)
Fresh == [state |-> [c \in Contracts |-> ZeroCheckpoint], db |-> EmptyDb]

(* npm run backfill over the blocks 0..b of the chain ch, one watched
   contract after the other from the k-th on, while the head is at height
   head *)
RECURSIVE backfillAll(_, _, _, _, _)
backfillAll(s, ch, k, b, head) ==
    IF k > Len(ContractList) THEN s
    ELSE LET c == ContractList[k]
             r == backfill([state |-> s.state[c], db |-> s.db], ch, c, 0, b, head)
         IN backfillAll([state |-> [s.state EXCEPT ![c] = r.state], db |-> r.db],
                        ch, k + 1, b, head)

(* the database after that backfill on a fresh database *)
Backfilled(ch, b, head) == backfillAll(Fresh, ch, 1, b, head)

(* the indexer is started on a chain of height l with the database s *)
Start(l, s) ==
    /\ latest = l
    /\ chain = [h \in 0..MaxBlock |-> 0]
    /\ forks = 0
    /\ indexer_state = s.state
    /\ blockchain_events = s.db.events
    /\ properties = s.db.properties
    /\ user_portfolio = s.db.portfolio
    /\ marketplace_listings = s.db.listings
    /\ marketplace_transactions = s.db.transactions
    /\ dead_letters = {}
    /\ rent_deposits = s.db.deposits
    /\ reward_claims = s.db.claims
    /\ users = s.db.users
    /\ transactions = <<>>
    /\ pc = [d \in Drivers |-> "idle"]
    /\ loaded = [d \in Drivers |-> ZeroCheckpoint]
    /\ logs = [d \in Drivers |-> <<>>]
    /\ idx = [d \in Drivers |-> 1]
    /\ hstep = [d \in Drivers |-> 1]
    /\ existing = [d \in Drivers |-> NoRow]
    /\ toBlock = [d \in Drivers |-> 0]
    /\ reorgDetected = [d \in Drivers |-> FALSE]
    /\ attempts = [d \in Drivers |-> 0]
    /\ cycles = 0
    /\ posted = {}
    /\ request = [r \in 1..MaxRequests |-> NoRequest]
    /\ faults = 0
    /\ fetched = [h \in 0..MaxBlock |-> NotFetched]
    /\ applied = [k \in AllKeys |-> 0]
    /\ pre = [state |-> s.state[PropertyShare], events |-> s.db.events,
              properties |-> s.db.properties, portfolio |-> s.db.portfolio,
              listings |-> s.db.listings, transactions |-> s.db.transactions,
              deposits |-> s.db.deposits, claims |-> s.db.claims, users |-> s.db.users]
    /\ lastWrite = "init"
    /\ deleted = 0
    /\ reorgedProcessed = FALSE
    /\ reorgedCheckpoint = FALSE
    /\ stable = TRUE
    /\ crashPre = NoSnapshot
    /\ failedKey = NoKey

(* a fresh database on a chain that has the genesis block only *)
Init == Start(0, Fresh)

(* ------------------------------ chain actions -------------------------- *)
MineBlock ==
    /\ latest < MaxBlock
    /\ latest' = latest + 1
    /\ chain' = [chain EXCEPT ![latest + 1] = forks]
    /\ UNCHANGED <<forks, dbVars, localVars, cycles, frontVars, histVars>>

(* the blocks f..latest are replaced by blocks of a new fork *)
Reorg(f) ==
    /\ forks < MaxFork
    /\ f \in 1..latest
    /\ forks' = forks + 1
    /\ chain' = [h \in 0..MaxBlock |-> IF h >= f /\ h <= latest THEN forks + 1 ELSE chain[h]]
    /\ reorgedProcessed' =
          (reorgedProcessed \/ f <= indexer_state[PropertyShare].last_processed_block)
    /\ reorgedCheckpoint' =
          (reorgedCheckpoint \/ f <= indexer_state[PropertyShare].last_checkpoint_block)
    /\ stable' = FALSE
    /\ crashPre' = NoSnapshot
    /\ UNCHANGED <<latest, dbVars, localVars, cycles, frontVars, fetched, faults, applied, pre,
                   lastWrite, deleted, failedKey>>

(* ------------------------------ the loop of a contract ----------------- *)
(* poll tick: the loops ds of one indexer process have finished the last
   cycle; each of them is started again and loads its checkpoint *)
PollTick(ds) ==
    /\ \A d \in ds : pc[d] = "idle"
    /\ Main \in ds \/ cycles < MaxCycles
    /\ cycles' = IF Main \in ds THEN cycles ELSE cycles + 1
    /\ pc' = [d \in Drivers |-> IF d \in ds THEN "detect" ELSE pc[d]]
    /\ loaded' = [d \in Drivers |-> IF d \in ds THEN indexer_state[Contract(d)] ELSE loaded[d]]
    /\ logs' = [d \in Drivers |-> IF d \in ds THEN <<>> ELSE logs[d]]
    /\ idx' = [d \in Drivers |-> IF d \in ds THEN 1 ELSE idx[d]]
    /\ hstep' = [d \in Drivers |-> IF d \in ds THEN 1 ELSE hstep[d]]
    /\ existing' = [d \in Drivers |-> IF d \in ds THEN NoRow ELSE existing[d]]
    /\ reorgDetected' = [d \in Drivers |-> IF d \in ds THEN FALSE ELSE reorgDetected[d]]
    /\ attempts' = [d \in Drivers |-> IF d \in ds THEN 0 ELSE attempts[d]]
    /\ UNCHANGED <<chainVars, dbVars, toBlock, frontVars, histVars>>

(* reorg detector: fetch the block at the checkpoint height and compare its
   hash with the stored one *)
DetectReorg(d) ==
    /\ pc[d] = "detect"
    /\ reorgDetected' = [reorgDetected EXCEPT ![d] = hashMismatch(chain, loaded[d])]
    /\ pc' = [pc EXCEPT ![d] = IF hashMismatch(chain, loaded[d])
                               THEN "delete_events" ELSE "compute"]
    /\ stable' = IF d = Main THEN TRUE ELSE stable
    /\ UNCHANGED <<chainVars, dbVars, loaded, logs, idx, hstep, existing, toBlock, attempts,
                   cycles, frontVars, fetched, faults, applied, pre, lastWrite, deleted,
                   reorgedProcessed, reorgedCheckpoint, crashPre, failedKey>>

(* rollback 1: DELETE FROM blockchain_events WHERE block_number >= checkpoint *)
DeleteEvents(d) ==
    /\ pc[d] = "delete_events"
    /\ blockchain_events' =
           deleteEventsFrom(blockchain_events, loaded[d].last_checkpoint_block)
    /\ deleted' = IF d = Main THEN Len(blockchain_events) - Len(blockchain_events')
                  ELSE deleted
    /\ applied' = [k \in AllKeys |->
           IF \E n \in 1..Len(blockchain_events) :
                 /\ Key(blockchain_events[n]) = k
                 /\ blockchain_events[n].block_number >= loaded[d].last_checkpoint_block
           THEN 0 ELSE applied[k]]
    /\ pc' = [pc EXCEPT ![d] = "delete_portfolio"]
    /\ UNCHANGED <<chainVars, indexer_state, properties, user_portfolio, marketplace_listings,
                   marketplace_transactions, dead_letters, otherTables, loaded, logs, idx, hstep, existing,
                   toBlock, reorgDetected, attempts, cycles, frontVars, fetched, faults, pre, lastWrite,
                   reorgedProcessed, reorgedCheckpoint, stable, crashPre, failedKey>>

(* rollback 2: DELETE FROM user_portfolio WHERE last_updated >= the
   timestamp of the checkpoint block *)
DeletePortfolio(d) ==
    /\ pc[d] = "delete_portfolio"
    /\ user_portfolio' = deletePortfolioFrom(user_portfolio, loaded[d].last_checkpoint_block)
    /\ pc' = [pc EXCEPT ![d] = "cascade"]
    /\ UNCHANGED <<chainVars, indexer_state, blockchain_events, properties,
                   marketplace_listings, marketplace_transactions, dead_letters, otherTables, loaded, logs,
                   idx, hstep, existing, toBlock, reorgDetected, attempts, cycles, frontVars, histVars>>

(* rollback 3: the cascade on the other tables *)
CascadeDelete(d) ==
    /\ pc[d] = "cascade"
    /\ marketplace_transactions' =
           cascadeDelete(marketplace_transactions, loaded[d].last_checkpoint_block)
    /\ rent_deposits' = cascadeDelete(rent_deposits, loaded[d].last_checkpoint_block)
    /\ reward_claims' = cascadeDelete(reward_claims, loaded[d].last_checkpoint_block)
    /\ pc' = [pc EXCEPT ![d] = "rewind"]
    /\ UNCHANGED <<chainVars, indexer_state, blockchain_events, properties, user_portfolio,
                   marketplace_listings, dead_letters, users, transactions, loaded, logs, idx, hstep, existing,
                   toBlock, reorgDetected, attempts, cycles, frontVars, histVars>>

(* rollback 4: set the column last_processed_block of the stored row to the
   block below the checkpoint the cycle loaded; processing resumes from the
   checkpoint block *)
RewindCursor(d) ==
    /\ pc[d] = "rewind"
    /\ indexer_state' = [indexer_state EXCEPT ![Contract(d)] =
                            rewind(indexer_state[Contract(d)], loaded[d])]
    /\ loaded' = [loaded EXCEPT ![d] = rewind(loaded[d], loaded[d])]
    /\ pc' = [pc EXCEPT ![d] = "compute"]
    /\ lastWrite' = IF d = Main THEN "rollback" ELSE lastWrite
    /\ reorgedProcessed' = IF d = Main THEN FALSE ELSE reorgedProcessed
    /\ crashPre' = IF d = Main THEN NoSnapshot ELSE crashPre
    /\ failedKey' = IF d = Main THEN NoKey ELSE failedKey
    /\ UNCHANGED <<chainVars, blockchain_events, properties, user_portfolio,
                   marketplace_listings, marketplace_transactions, dead_letters, otherTables, logs, idx,
                   hstep, existing, toBlock, reorgDetected, attempts, cycles, frontVars, fetched, faults,
                   applied, pre, deleted, reorgedCheckpoint, stable>>

(* steps 3-5: compute the range and fetch its logs, or go back to sleep *)
FetchBatch(d) ==
    /\ pc[d] = "compute"
    /\ attempts' = [attempts EXCEPT ![d] = 0]
    /\ LET to == computeToBlock(getLatestBlockNumber, loaded[d])
           from == loaded[d].last_processed_block + 1
       IN IF to <= loaded[d].last_processed_block
          THEN /\ pc' = [pc EXCEPT ![d] = "idle"]
               /\ UNCHANGED <<logs, idx, hstep, toBlock, pre, fetched>>
          ELSE /\ toBlock' = [toBlock EXCEPT ![d] = to]
               /\ logs' = [logs EXCEPT ![d] = getLogs(chain, Contract(d), from, to)]
               /\ idx' = [idx EXCEPT ![d] = 1]
               /\ hstep' = [hstep EXCEPT ![d] = 1]
               /\ pre' = IF d = Main THEN Snapshot ELSE pre
               /\ fetched' = IF d = Main
                             THEN [h \in 0..MaxBlock |->
                                     IF h >= from /\ h <= to
                                     THEN [hash |-> getBlockHash(chain, h),
                                           logs |-> LogsAt(chain, Contract(d), h)]
                                     ELSE fetched[h]]
                             ELSE fetched
               /\ pc' = [pc EXCEPT ![d] = IF logs'[d] = <<>> THEN "save" ELSE "process"]
    /\ UNCHANGED <<chainVars, dbVars, loaded, existing, reorgDetected, cycles, frontVars, faults,
                   applied, lastWrite, deleted, reorgedProcessed, reorgedCheckpoint, stable,
                   crashPre, failedKey>>

(* variant: the failing call is retried without a bound *)
FetchLogsFailsUnbounded(d) ==
    /\ pc[d] = "compute"
    /\ attempts[d] > 0 \/ faults < MaxFaults
    /\ faults' = IF attempts[d] = 0 THEN faults + 1 ELSE faults
    /\ attempts' = [attempts EXCEPT ![d] = @ + 1]
    /\ UNCHANGED <<chainVars, dbVars, pc, loaded, logs, idx, hstep, existing, toBlock,
                   reorgDetected, cycles, frontVars, fetched, applied, pre, lastWrite, deleted,
                   reorgedProcessed, reorgedCheckpoint, stable, crashPre, failedKey>>

(* the RPC provider is down: the call fails and is retried after a backoff;
   when the attempts of the cycle are used up the error is logged and the
   loop waits for the next poll tick *)
FetchLogsFails(d) ==
    /\ pc[d] = "compute"
    /\ attempts[d] < MaxAttempts
    /\ attempts[d] > 0 \/ faults < MaxFaults
    /\ faults' = IF attempts[d] = 0 THEN faults + 1 ELSE faults
    /\ attempts' = [attempts EXCEPT ![d] = @ + 1]
    /\ pc' = [pc EXCEPT ![d] = IF attempts[d] + 1 = MaxAttempts THEN "idle" ELSE "compute"]
    /\ UNCHANGED <<chainVars, dbVars, loaded, logs, idx, hstep, existing, toBlock,
                   reorgDetected, cycles, frontVars, fetched, applied, pre, lastWrite, deleted,
                   reorgedProcessed, reorgedCheckpoint, stable, crashPre, failedKey>>

(* ------------------------------ the handlers, call by call ------------- *)
Cur(d) == logs[d][idx[d]]

(* the loop is about to make call n of the handler of an event in names *)
AtCall(d, names, n) ==
    /\ pc[d] = "process"
    /\ idx[d] <= Len(logs[d])
    /\ Decodable(Cur(d))
    /\ Cur(d).event_name \in names
    /\ hstep[d] = n

(* the call returned: the next call of the handler, or the next log *)
Returned(d) ==
    IF hstep[d] < NumCalls(Cur(d))
    THEN /\ hstep' = [hstep EXCEPT ![d] = @ + 1]
         /\ UNCHANGED <<pc, idx>>
    ELSE /\ hstep' = [hstep EXCEPT ![d] = 1]
         /\ idx' = [idx EXCEPT ![d] = @ + 1]
         /\ pc' = [pc EXCEPT ![d] = IF idx[d] = Len(logs[d]) THEN "save" ELSE "process"]

(* history: the first derived write of the handler of the event was made *)
Applied(d) == applied' = [applied EXCEPT ![Key(Cur(d))] = @ + 1]

Retried(d) ==
    failedKey' = IF d = Main /\ hstep[d] = NumCalls(Cur(d)) /\ Key(Cur(d)) = failedKey
                 THEN NoKey ELSE failedKey

(* call 1 of every handler: validate the arguments, then storeEvent *)
StoreEvent(d) ==
    /\ AtCall(d, KnownEvents(Contract(d)), 1)
    /\ IF ValidArgs(Cur(d))
       THEN /\ blockchain_events' = storeEvent(blockchain_events, Cur(d))
            /\ Returned(d)
            /\ UNCHANGED <<faults, crashPre, failedKey>>
       ELSE /\ pc' = [pc EXCEPT ![d] = "failed"]
            /\ faults' = faults
            /\ crashPre' = IF d = Main THEN NoSnapshot ELSE crashPre
            /\ failedKey' = IF d = Main THEN Key(Cur(d)) ELSE failedKey
            /\ UNCHANGED <<blockchain_events, idx, hstep>>
    /\ UNCHANGED <<chainVars, indexer_state, properties, user_portfolio, marketplace_listings,
                   marketplace_transactions, dead_letters, otherTables, loaded, logs, existing, toBlock,
                   reorgDetected, attempts, cycles, frontVars, fetched, applied, pre, lastWrite, deleted,
                   reorgedProcessed, reorgedCheckpoint, stable>>

(* PropertyCreated, call 2: insert the properties row *)
InsertProperty(d) ==
    /\ AtCall(d, {"PropertyCreated"}, 2)
    /\ properties' = insertProperty(properties, Cur(d).args)
    /\ Applied(d)
    /\ Retried(d)
    /\ Returned(d)
    /\ UNCHANGED <<chainVars, indexer_state, blockchain_events, user_portfolio,
                   marketplace_listings, marketplace_transactions, dead_letters, otherTables, loaded, logs,
                   existing, toBlock, reorgDetected, attempts, cycles, frontVars, fetched, faults, pre,
                   lastWrite, deleted, reorgedProcessed, reorgedCheckpoint, stable, crashPre>>

(* SharesPurchased, call 2: decrease the available shares *)
UpdateProperties(d) ==
    /\ AtCall(d, {"SharesPurchased"}, 2)
    /\ properties' = updateProperties(properties, Cur(d).args)
    /\ Applied(d)
    /\ Returned(d)
    /\ UNCHANGED <<chainVars, indexer_state, blockchain_events, user_portfolio,
                   marketplace_listings, marketplace_transactions, dead_letters, otherTables, loaded, logs,
                   existing, toBlock, reorgDetected, attempts, cycles, frontVars, fetched, faults, pre,
                   lastWrite, deleted, reorgedProcessed, reorgedCheckpoint, stable, crashPre,
                   failedKey>>

(* TransferSingle, call 2: decrease the sender's position *)
DecreasePortfolio(d) ==
    /\ AtCall(d, {"TransferSingle"}, 2)
    /\ user_portfolio' = updatePortfolio(user_portfolio, Cur(d).args.from, Cur(d).args.id,
                                         0 - Cur(d).args.value, NOW)
    /\ Applied(d)
    /\ Returned(d)
    /\ UNCHANGED <<chainVars, indexer_state, blockchain_events, properties,
                   marketplace_listings, marketplace_transactions, dead_letters, otherTables, loaded, logs,
                   existing, toBlock, reorgDetected, attempts, cycles, frontVars, fetched, faults, pre,
                   lastWrite, deleted, reorgedProcessed, reorgedCheckpoint, stable, crashPre,
                   failedKey>>

(* ListingCreated, call 2: insert the listing *)
InsertListing(d) ==
    /\ AtCall(d, {"ListingCreated"}, 2)
    /\ marketplace_listings' = insertListing(marketplace_listings, Cur(d).args)
    /\ Applied(d)
    /\ Retried(d)
    /\ Returned(d)
    /\ UNCHANGED <<chainVars, indexer_state, blockchain_events, properties, user_portfolio,
                   marketplace_transactions, dead_letters, otherTables, loaded, logs, existing, toBlock,
                   reorgDetected, attempts, cycles, frontVars, fetched, faults, pre, lastWrite, deleted,
                   reorgedProcessed, reorgedCheckpoint, stable, crashPre>>

(* ListingPurchased, call 2: mark the listing sold *)
UpdateListing(d) ==
    /\ AtCall(d, {"ListingPurchased"}, 2)
    /\ marketplace_listings' = updateListing(marketplace_listings, Cur(d).args)
    /\ Applied(d)
    /\ Returned(d)
    /\ UNCHANGED <<chainVars, indexer_state, blockchain_events, properties, user_portfolio,
                   marketplace_transactions, dead_letters, otherTables, loaded, logs, existing, toBlock,
                   reorgDetected, attempts, cycles, frontVars, fetched, faults, pre, lastWrite, deleted,
                   reorgedProcessed, reorgedCheckpoint, stable, crashPre, failedKey>>

(* ListingPurchased, call 3: insert the trade *)
InsertTransaction(d) ==
    /\ AtCall(d, {"ListingPurchased"}, 3)
    /\ marketplace_transactions' =
           insertTransaction(marketplace_transactions, Cur(d).args,
                             Cur(d).transaction_hash)
    /\ Returned(d)
    /\ UNCHANGED <<chainVars, indexer_state, blockchain_events, properties, user_portfolio,
                   marketplace_listings, dead_letters, otherTables, loaded, logs, existing, toBlock,
                   reorgDetected, attempts, cycles, frontVars, histVars>>

(* FundsDepositedByManager, call 2: insert the deposit *)
InsertDeposit(d) ==
    /\ AtCall(d, {"FundsDepositedByManager"}, 2)
    /\ rent_deposits' = insertDeposit(rent_deposits, Cur(d).args, Cur(d).transaction_hash)
    /\ Applied(d)
    /\ Returned(d)
    /\ UNCHANGED <<chainVars, indexer_state, blockchain_events, properties, user_portfolio,
                   marketplace_listings, marketplace_transactions, dead_letters, reward_claims, users, transactions,
                   loaded, logs, existing, toBlock, reorgDetected, attempts, cycles,
                   frontVars, fetched, faults, pre, lastWrite, deleted, reorgedProcessed,
                   reorgedCheckpoint, stable, crashPre, failedKey>>

(* PayoutTriggered, call 2: mark the deposits of the token distributed *)
UpdateDeposit(d) ==
    /\ AtCall(d, {"PayoutTriggered"}, 2)
    /\ rent_deposits' = updateDeposits(rent_deposits, Cur(d).args)
    /\ Applied(d)
    /\ Returned(d)
    /\ UNCHANGED <<chainVars, indexer_state, blockchain_events, properties, user_portfolio,
                   marketplace_listings, marketplace_transactions, dead_letters, reward_claims, users, transactions,
                   loaded, logs, existing, toBlock, reorgDetected, attempts, cycles,
                   frontVars, fetched, faults, pre, lastWrite, deleted, reorgedProcessed,
                   reorgedCheckpoint, stable, crashPre, failedKey>>

(* RewardClaimed, call 2: insert the claim *)
InsertClaim(d) ==
    /\ AtCall(d, {"RewardClaimed"}, 2)
    /\ reward_claims' = insertClaim(reward_claims, Cur(d).args, Cur(d).transaction_hash)
    /\ Applied(d)
    /\ Returned(d)
    /\ UNCHANGED <<chainVars, indexer_state, blockchain_events, properties, user_portfolio,
                   marketplace_listings, marketplace_transactions, dead_letters, rent_deposits, users, transactions,
                   loaded, logs, existing, toBlock, reorgDetected, attempts, cycles,
                   frontVars, fetched, faults, pre, lastWrite, deleted, reorgedProcessed,
                   reorgedCheckpoint, stable, crashPre, failedKey>>

(* KYCApproved, SbtMinted, ProofSubmitted, call 2: update the user's row *)
UpdateUser(d) ==
    /\ AtCall(d, {"KYCApproved", "SbtMinted", "ProofSubmitted"}, 2)
    /\ users' = updateUser(users, Cur(d))
    /\ Applied(d)
    /\ Returned(d)
    /\ UNCHANGED <<chainVars, indexer_state, blockchain_events, properties, user_portfolio,
                   marketplace_listings, marketplace_transactions, dead_letters, rent_deposits, reward_claims, transactions,
                   loaded, logs, existing, toBlock, reorgDetected, attempts, cycles,
                   frontVars, fetched, faults, pre, lastWrite, deleted, reorgedProcessed,
                   reorgedCheckpoint, stable, crashPre, failedKey>>

(* the wallet whose position the handler of a log increases, and by how much *)
Credited(log) ==
    IF log.event_name = "TransferSingle"
    THEN [wallet |-> log.args.to, tokenId |-> log.args.id, amount |-> log.args.value]
    ELSE [wallet |-> log.args.buyer, tokenId |-> log.args.tokenId, amount |-> log.args.amount]

ReadCall(log) == IF log.event_name = "ListingPurchased" THEN 4 ELSE 3

(* existing = await getPortfolio(wallet, tokenId) *)
GetPortfolio(d) ==
    /\ AtCall(d, {"SharesPurchased", "TransferSingle", "ListingPurchased"}, ReadCall(Cur(d)))
    /\ existing' = [existing EXCEPT ![d] =
                       getPortfolio(user_portfolio, Credited(Cur(d)).wallet,
                                    Credited(Cur(d)).tokenId)]
    /\ Returned(d)
    /\ UNCHANGED <<chainVars, dbVars, loaded, logs, toBlock, reorgDetected, attempts, cycles, frontVars,
                   histVars>>

(* if (existing) updatePortfolio(...) else createPortfolio(...) *)
WritePortfolio(d) ==
    /\ AtCall(d, {"SharesPurchased", "TransferSingle", "ListingPurchased"},
              ReadCall(Cur(d)) + 1)
    /\ user_portfolio' = writePortfolio(user_portfolio, existing[d], Credited(Cur(d)).wallet,
                                        Credited(Cur(d)).tokenId, Credited(Cur(d)).amount, NOW)
    /\ Retried(d)
    /\ Returned(d)
    /\ UNCHANGED <<chainVars, indexer_state, blockchain_events, properties,
                   marketplace_listings, marketplace_transactions, dead_letters, otherTables, loaded, logs,
                   existing, toBlock, reorgDetected, attempts, cycles, frontVars, fetched, faults, applied,
                   pre, lastWrite, deleted, reorgedProcessed, reorgedCheckpoint, stable,
                   crashPre>>

(* variant: a log that fails to decode is dropped without a record *)
SkipLogUnrecorded(d) ==
    /\ pc[d] = "process"
    /\ idx[d] <= Len(logs[d])
    /\ ~Decodable(Cur(d))
    /\ idx' = [idx EXCEPT ![d] = @ + 1]
    /\ pc' = [pc EXCEPT ![d] = IF idx[d] = Len(logs[d]) THEN "save" ELSE "process"]
    /\ UNCHANGED <<chainVars, dbVars, loaded, logs, hstep, existing, toBlock, reorgDetected,
                   attempts, cycles, frontVars, histVars>>

(* step 6 for a log that fails to decode: the raw log is kept for manual
   inspection, the log is skipped and the batch goes on *)
SkipLog(d) ==
    /\ pc[d] = "process"
    /\ idx[d] <= Len(logs[d])
    /\ ~Decodable(Cur(d))
    /\ dead_letters' = dead_letters \cup {Cur(d)}
    /\ idx' = [idx EXCEPT ![d] = @ + 1]
    /\ pc' = [pc EXCEPT ![d] = IF idx[d] = Len(logs[d]) THEN "save" ELSE "process"]
    /\ UNCHANGED <<chainVars, indexer_state, blockchain_events, properties, user_portfolio,
                   marketplace_listings, marketplace_transactions, otherTables, loaded, logs, hstep,
                   existing, toBlock, reorgDetected, attempts, cycles, frontVars, histVars>>

(* a database failure: call number step of the handler, a call on a derived
   table after storeEvent, fails; the writes of the calls before it stay *)
HandleLogFails(d, step) ==
    /\ pc[d] = "process"
    /\ idx[d] <= Len(logs[d])
    /\ Decodable(Cur(d))
    /\ hstep[d] = step
    /\ faults < MaxFaults
    /\ faults' = faults + 1
    /\ pc' = [pc EXCEPT ![d] = "failed"]
    /\ crashPre' = IF d = Main THEN NoSnapshot ELSE crashPre
    /\ failedKey' = IF d = Main THEN Key(Cur(d)) ELSE failedKey
    /\ UNCHANGED <<chainVars, dbVars, loaded, logs, idx, hstep, existing, toBlock,
                   reorgDetected, attempts, cycles, frontVars, fetched, applied, pre, lastWrite, deleted,
                   reorgedProcessed, reorgedCheckpoint, stable>>

(* variant: a failed cycle stops the loop for good *)
BackoffStops(d) ==
    /\ pc[d] = "failed"
    /\ pc' = [pc EXCEPT ![d] = "stopped"]
    /\ UNCHANGED <<chainVars, dbVars, loaded, logs, idx, hstep, existing, toBlock,
                   reorgDetected, attempts, cycles, frontVars, histVars>>

(* the failed cycle ends; the next poll tick retries *)
Backoff(d) ==
    /\ pc[d] = "failed"
    /\ pc' = [pc EXCEPT ![d] = "idle"]
    /\ logs' = [logs EXCEPT ![d] = <<>>]
    /\ idx' = [idx EXCEPT ![d] = 1]
    /\ hstep' = [hstep EXCEPT ![d] = 1]
    /\ existing' = [existing EXCEPT ![d] = NoRow]
    /\ reorgDetected' = [reorgDetected EXCEPT ![d] = FALSE]
    /\ UNCHANGED <<chainVars, dbVars, loaded, toBlock, attempts, cycles, frontVars, histVars>>

(* step 7: save the checkpoint row *)
SaveCheckpoint(d) ==
    /\ pc[d] = "save"
    /\ indexer_state' = [indexer_state EXCEPT ![Contract(d)] =
           advance(loaded[d], chain, loaded[d].last_processed_block + 1, toBlock[d], NOW)]
    /\ lastWrite' = IF d = Main THEN "batch" ELSE lastWrite
    /\ reorgedCheckpoint' =
          IF d = Main
          THEN (reorgedCheckpoint /\
                indexer_state'[PropertyShare].last_checkpoint_hash =
                    indexer_state[PropertyShare].last_checkpoint_hash)
          ELSE reorgedCheckpoint
    /\ pc' = [pc EXCEPT ![d] = "idle"]
    /\ existing' = [existing EXCEPT ![d] = NoRow]
    /\ crashPre' = IF d = Main THEN NoSnapshot ELSE crashPre
    /\ UNCHANGED <<chainVars, blockchain_events, properties, user_portfolio,
                   marketplace_listings, marketplace_transactions, dead_letters, otherTables, loaded, logs,
                   idx, hstep, toBlock, reorgDetected, attempts, cycles, frontVars, fetched, faults,
                   applied, pre, deleted, reorgedProcessed, stable, failedKey>>

InCycle == {"detect", "delete_events", "delete_portfolio", "cascade", "rewind",
            "compute", "process", "save"}

(* the indexer process dies while the loops ds are inside a cycle, and is
   restarted: every loop starts again from its stored checkpoint *)
Crash(ds) ==
    /\ \E d \in ds : pc[d] \in InCycle
    /\ faults < MaxFaults
    /\ faults' = faults + 1
    /\ pc' = [d \in Drivers |-> "idle"]
    /\ logs' = [d \in Drivers |-> <<>>]
    /\ idx' = [d \in Drivers |-> 1]
    /\ hstep' = [d \in Drivers |-> 1]
    /\ existing' = [d \in Drivers |-> NoRow]
    /\ reorgDetected' = [d \in Drivers |-> FALSE]
    /\ attempts' = [d \in Drivers |-> 0]
    /\ crashPre' = IF /\ pc[Main] = "save"
                       /\ crashPre = NoSnapshot
                       /\ logs[Main] = getLogs(chain, PropertyShare,
                                               loaded[Main].last_processed_block + 1,
                                               toBlock[Main])
                    THEN pre ELSE crashPre
    /\ UNCHANGED <<chainVars, dbVars, loaded, toBlock, cycles, frontVars, fetched, applied, pre,
                   lastWrite, deleted, reorgedProcessed, reorgedCheckpoint, stable, failedKey>>

(* ------------------------------ the API routes, statement by statement - *)
(* a request that was answered *)
Answered == [step |-> 0]

(* the frontend calls an API route; the routes serve their requests
   concurrently, each request running its statements one by one *)
Call(route, key, body) ==
    /\ \E r \in 1..MaxRequests :
          /\ request[r] = NoRequest
          /\ \A q \in 1..(r - 1) : request[q] # NoRequest
          /\ request' = [request EXCEPT ![r] = [route |-> route, body |-> body,
                                                step |-> 1, existing |-> NoRow]]
    /\ posted' = posted \cup {<<route, key>>}
    /\ UNCHANGED <<chainVars, dbVars, localVars, cycles, histVars>>

(* the frontend saw the receipt of the i-th transaction of block h and calls
   an API route for it; nothing keeps it from calling the route again *)
Post(h, i, route) ==
    /\ h \in 1..latest
    /\ i \in 1..NumTx(h, chain[h])
    /\ route \in RoutesOf(TxKind(TxBefore(chain, h) + i))
    /\ Call(route, <<h, chain[h], i>>, Body(TxBefore(chain, h) + i, h, chain[h], i))

(* the registration page calls POST /api/users/register for the wallet that
   registered with the user registry *)
PostRegister(wallet) ==
    Call("POST /api/users/register", wallet, [user |-> wallet])

(* request r is about to run statement number n of the route *)
AtStatement(r, route, n) ==
    /\ request[r] # NoRequest
    /\ request[r].step = n
    /\ request[r].route = route

(* the statement returned: the next statement, or the response *)
Responded(r, last) ==
    request' = [request EXCEPT ![r] = IF @.step = last THEN Answered
                                      ELSE [@ EXCEPT !.step = @ + 1]]

(* POST /api/users/register: insert the user's row *)
UsersRegister(r) ==
    /\ AtStatement(r, "POST /api/users/register", 1)
    /\ users' = createUser(users, request[r].body.user)
    /\ Responded(r, 1)
    /\ UNCHANGED <<chainVars, indexer_state, blockchain_events, properties, user_portfolio,
                   marketplace_listings, marketplace_transactions, dead_letters,
                   rent_deposits, reward_claims, transactions, localVars, cycles, posted,
                   histVars>>

(* POST /api/admin/kyc/approve: after the proof was submitted and the
   soulbound token minted, update the user's row; the route answers with an
   error when no row was updated *)
KycApprove(r) ==
    /\ AtStatement(r, "POST /api/admin/kyc/approve", 1)
    /\ users' = approveUser(users, request[r].body)
    /\ Responded(r, 1)
    /\ UNCHANGED <<chainVars, indexer_state, blockchain_events, properties, user_portfolio,
                   marketplace_listings, marketplace_transactions, dead_letters,
                   rent_deposits, reward_claims, transactions, localVars, cycles, posted,
                   histVars>>

(* POST /api/properties/create, statement 1: create the seller's user row
   when there is none *)
PropertiesCreateUser(r) ==
    /\ AtStatement(r, "POST /api/properties/create", 1)
    /\ users' = createUser(users, request[r].body.seller)
    /\ Responded(r, 2)
    /\ UNCHANGED <<chainVars, indexer_state, blockchain_events, properties, user_portfolio,
                   marketplace_listings, marketplace_transactions, dead_letters,
                   rent_deposits, reward_claims, transactions, localVars, cycles, posted,
                   histVars>>

(* POST /api/properties/create, statement 2: insert the property *)
PropertiesCreateInsert(r) ==
    /\ AtStatement(r, "POST /api/properties/create", 2)
    /\ properties' = createProperty(properties, request[r].body)
    /\ Responded(r, 2)
    /\ UNCHANGED <<chainVars, indexer_state, blockchain_events, user_portfolio,
                   marketplace_listings, marketplace_transactions, dead_letters,
                   rent_deposits, reward_claims, users, transactions, localVars, cycles,
                   posted, histVars>>

(* PATCH /api/properties/[tokenId]: reduce the available shares *)
PropertiesPatch(r) ==
    /\ AtStatement(r, "PATCH /api/properties/[tokenId]", 1)
    /\ properties' = updateProperties(properties, request[r].body)
    /\ Responded(r, 1)
    /\ UNCHANGED <<chainVars, indexer_state, blockchain_events, user_portfolio,
                   marketplace_listings, marketplace_transactions, dead_letters,
                   rent_deposits, reward_claims, users, transactions, localVars, cycles,
                   posted, histVars>>

(* POST /api/transactions/log, statement 1: insert the transaction; the
   insert of a transaction that was logged before adds no row *)
TransactionsLogInsert(r) ==
    /\ AtStatement(r, "POST /api/transactions/log", 1)
    /\ transactions' = logTransaction(transactions, request[r].body)
    /\ Responded(r, 3)
    /\ UNCHANGED <<chainVars, indexer_state, blockchain_events, properties, user_portfolio,
                   marketplace_listings, marketplace_transactions, dead_letters,
                   rent_deposits, reward_claims, users, localVars, cycles, posted,
                   histVars>>

(* POST /api/transactions/log, statement 2: read the buyer's position *)
TransactionsLogRead(r) ==
    /\ AtStatement(r, "POST /api/transactions/log", 2)
    /\ request' = [request EXCEPT
                      ![r].step = 3,
                      ![r].existing = getPortfolio(user_portfolio, request[r].body.buyer,
                                                   request[r].body.tokenId)]
    /\ UNCHANGED <<chainVars, dbVars, localVars, cycles, posted, histVars>>

(* POST /api/transactions/log, statement 3: update or create the position *)
TransactionsLogWrite(r) ==
    /\ AtStatement(r, "POST /api/transactions/log", 3)
    /\ user_portfolio' = writePortfolio(user_portfolio, request[r].existing,
                                        request[r].body.buyer, request[r].body.tokenId,
                                        request[r].body.amount, NOW)
    /\ Responded(r, 3)
    /\ UNCHANGED <<chainVars, indexer_state, blockchain_events, properties,
                   marketplace_listings, marketplace_transactions, dead_letters,
                   rent_deposits, reward_claims, users, transactions, localVars, cycles,
                   posted, histVars>>

(* POST /api/marketplace/create: insert the listing *)
MarketplaceCreate(r) ==
    /\ AtStatement(r, "POST /api/marketplace/create", 1)
    /\ marketplace_listings' = insertListing(marketplace_listings, request[r].body)
    /\ Responded(r, 1)
    /\ UNCHANGED <<chainVars, indexer_state, blockchain_events, properties, user_portfolio,
                   marketplace_transactions, dead_letters, rent_deposits, reward_claims,
                   users, transactions, localVars, cycles, posted, histVars>>

(* POST /api/marketplace/sync-from-blockchain: read the listing from the
   marketplace contract and write its row *)
MarketplaceSync(r) ==
    /\ AtStatement(r, "POST /api/marketplace/sync-from-blockchain", 1)
    /\ marketplace_listings' = syncListing(marketplace_listings, chain, latest,
                                           request[r].body.listingId)
    /\ Responded(r, 1)
    /\ UNCHANGED <<chainVars, indexer_state, blockchain_events, properties, user_portfolio,
                   marketplace_transactions, dead_letters, rent_deposits, reward_claims,
                   users, transactions, localVars, cycles, posted, histVars>>

(* POST /api/marketplace/cancel: mark the listing cancelled *)
MarketplaceCancel(r) ==
    /\ AtStatement(r, "POST /api/marketplace/cancel", 1)
    /\ marketplace_listings' = cancelListing(marketplace_listings, request[r].body)
    /\ Responded(r, 1)
    /\ UNCHANGED <<chainVars, indexer_state, blockchain_events, properties, user_portfolio,
                   marketplace_transactions, dead_letters, rent_deposits, reward_claims,
                   users, transactions, localVars, cycles, posted, histVars>>

(* POST /api/marketplace/purchase, statement 1: mark the listing sold *)
PurchaseUpdateListing(r) ==
    /\ AtStatement(r, "POST /api/marketplace/purchase", 1)
    /\ marketplace_listings' = updateListing(marketplace_listings, request[r].body)
    /\ Responded(r, 5)
    /\ UNCHANGED <<chainVars, indexer_state, blockchain_events, properties, user_portfolio,
                   marketplace_transactions, dead_letters, rent_deposits, reward_claims,
                   users, transactions, localVars, cycles, posted, histVars>>

(* POST /api/marketplace/purchase, statement 2: read the buyer's position *)
PurchaseReadBuyer(r) ==
    /\ AtStatement(r, "POST /api/marketplace/purchase", 2)
    /\ request' = [request EXCEPT
                      ![r].step = 3,
                      ![r].existing = getPortfolio(user_portfolio, request[r].body.buyer,
                                                   request[r].body.tokenId)]
    /\ UNCHANGED <<chainVars, dbVars, localVars, cycles, posted, histVars>>

(* POST /api/marketplace/purchase, statement 3: the UPDATE of the buyer's
   position when a row was read, the INSERT when none was *)
PurchaseWriteBuyer(r) ==
    /\ AtStatement(r, "POST /api/marketplace/purchase", 3)
    /\ user_portfolio' = writeBuyer(user_portfolio, request[r].existing,
                                    request[r].body.buyer, request[r].body.tokenId,
                                    request[r].body.amount, NOW)
    /\ Responded(r, 5)
    /\ UNCHANGED <<chainVars, indexer_state, blockchain_events, properties,
                   marketplace_listings, marketplace_transactions, dead_letters,
                   rent_deposits, reward_claims, users, transactions, localVars, cycles,
                   posted, histVars>>

(* POST /api/marketplace/purchase, statement 4: reduce or remove the
   seller's position *)
PurchaseSeller(r) ==
    /\ AtStatement(r, "POST /api/marketplace/purchase", 4)
    /\ user_portfolio' = reducePortfolio(user_portfolio, request[r].body.seller,
                                         request[r].body.tokenId, request[r].body.amount,
                                         NOW)
    /\ Responded(r, 5)
    /\ UNCHANGED <<chainVars, indexer_state, blockchain_events, properties,
                   marketplace_listings, marketplace_transactions, dead_letters,
                   rent_deposits, reward_claims, users, transactions, localVars, cycles,
                   posted, histVars>>

(* POST /api/marketplace/purchase, statement 5: insert the trade *)
PurchaseInsertTransaction(r) ==
    /\ AtStatement(r, "POST /api/marketplace/purchase", 5)
    /\ marketplace_transactions' =
           insertTransaction(marketplace_transactions, request[r].body,
                             request[r].body.transactionHash)
    /\ Responded(r, 5)
    /\ UNCHANGED <<chainVars, indexer_state, blockchain_events, properties, user_portfolio,
                   marketplace_listings, dead_letters, rent_deposits, reward_claims, users,
                   transactions, localVars, cycles, posted, histVars>>

(* POST /api/marketplace/purchase: a write of the route fails; the error is
   logged and the request goes on with the next statement *)
PurchaseStatementFails(r) ==
    /\ request[r] # NoRequest
    /\ request[r].step \in {1, 3, 4, 5}
    /\ request[r].route = "POST /api/marketplace/purchase"
    /\ faults < MaxFaults
    /\ faults' = faults + 1
    /\ Responded(r, 5)
    /\ UNCHANGED <<chainVars, dbVars, localVars, cycles, posted, fetched, applied, pre,
                   lastWrite, deleted, reorgedProcessed, reorgedCheckpoint, stable, crashPre,
                   failedKey>>

(* ------------------------------ specifications ------------------------- *)
MaxCalls == 5

(* the steps of a started loop that no failure causes *)
LoopStep(d) ==
    \/ DetectReorg(d)
    \/ DeleteEvents(d)
    \/ DeletePortfolio(d)
    \/ CascadeDelete(d)
    \/ RewindCursor(d)
    \/ FetchBatch(d)
    \/ StoreEvent(d)
    \/ InsertProperty(d)
    \/ UpdateProperties(d)
    \/ DecreasePortfolio(d)
    \/ GetPortfolio(d)
    \/ WritePortfolio(d)
    \/ SkipLog(d)
    \/ Backoff(d)
    \/ SaveCheckpoint(d)

(* the chain and the loop of the share contract, with crashes and failed calls *)
Next ==
    \/ MineBlock
    \/ \E f \in 1..MaxBlock : Reorg(f)
    \/ PollTick({Main})
    \/ DetectReorg(Main)
    \/ DeleteEvents(Main)
    \/ DeletePortfolio(Main)
    \/ CascadeDelete(Main)
    \/ RewindCursor(Main)
    \/ FetchBatch(Main)
    \/ FetchLogsFails(Main)
    \/ StoreEvent(Main)
    \/ InsertProperty(Main)
    \/ UpdateProperties(Main)
    \/ DecreasePortfolio(Main)
    \/ GetPortfolio(Main)
    \/ WritePortfolio(Main)
    \/ SkipLog(Main)
    \/ \E step \in 2..MaxCalls : HandleLogFails(Main, step)
    \/ Backoff(Main)
    \/ SaveCheckpoint(Main)
    \/ Crash({Main})

Spec == Init /\ [][Next]_vars

(* the loops of the share contract and of the marketplace contract, two of
   the loops started by Promise.all *)
MarketLoops == {Share, Market}

MarketNext ==
    \/ PollTick(MarketLoops)
    \/ \E d \in MarketLoops : DetectReorg(d)
    \/ \E d \in MarketLoops : FetchBatch(d)
    \/ \E d \in MarketLoops : StoreEvent(d)
    \/ \E d \in MarketLoops : DecreasePortfolio(d)
    \/ \E d \in MarketLoops : UpdateListing(d)
    \/ \E d \in MarketLoops : InsertTransaction(d)
    \/ \E d \in MarketLoops : GetPortfolio(d)
    \/ \E d \in MarketLoops : WritePortfolio(d)
    \/ \E d \in MarketLoops : SkipLog(d)
    \/ \E d \in MarketLoops : SaveCheckpoint(d)

(* the indexer is started on a chain that has its blocks already, with a
   database backfilled up to block 1 while block 2 was the head *)
MarketInit == Start(MaxBlock, Backfilled([h \in 0..MaxBlock |-> 0], 1, 2))

MarketSpec == MarketInit /\ [][MarketNext]_vars

(* the loop of the marketplace contract next to the API routes of the
   frontend, which write the same tables while the loop runs *)
FrontendNext ==
    \/ PollTick({Market})
    \/ DetectReorg(Market)
    \/ FetchBatch(Market)
    \/ StoreEvent(Market)
    \/ UpdateListing(Market)
    \/ InsertTransaction(Market)
    \/ GetPortfolio(Market)
    \/ WritePortfolio(Market)
    \/ SkipLog(Market)
    \/ SaveCheckpoint(Market)
    \/ \E h \in 1..MaxBlock, i \in 1..MaxTx, route \in Routes : Post(h, i, route)
    \/ \E wallet \in Users : PostRegister(wallet)
    \/ \E r \in 1..MaxRequests : UsersRegister(r)
    \/ \E r \in 1..MaxRequests : KycApprove(r)
    \/ \E r \in 1..MaxRequests : PropertiesCreateUser(r)
    \/ \E r \in 1..MaxRequests : PropertiesCreateInsert(r)
    \/ \E r \in 1..MaxRequests : PropertiesPatch(r)
    \/ \E r \in 1..MaxRequests : TransactionsLogInsert(r)
    \/ \E r \in 1..MaxRequests : TransactionsLogRead(r)
    \/ \E r \in 1..MaxRequests : TransactionsLogWrite(r)
    \/ \E r \in 1..MaxRequests : MarketplaceCreate(r)
    \/ \E r \in 1..MaxRequests : MarketplaceSync(r)
    \/ \E r \in 1..MaxRequests : MarketplaceCancel(r)
    \/ \E r \in 1..MaxRequests : PurchaseUpdateListing(r)
    \/ \E r \in 1..MaxRequests : PurchaseReadBuyer(r)
    \/ \E r \in 1..MaxRequests : PurchaseWriteBuyer(r)
    \/ \E r \in 1..MaxRequests : PurchaseSeller(r)
    \/ \E r \in 1..MaxRequests : PurchaseInsertTransaction(r)
    \/ \E r \in 1..MaxRequests : PurchaseStatementFails(r)

FrontendSpec == MarketInit /\ [][FrontendNext]_vars


(* the loops of the revenue splitter and of the marketplace contract, two of
   the loops started by Promise.all, on a chain that reorganises *)
IndexerLoops == {Revenue, Market}

IndexerNext ==
    \/ \E f \in 1..MaxBlock : Reorg(f)
    \/ PollTick(IndexerLoops)
    \/ \E d \in IndexerLoops : DetectReorg(d)
    \/ \E d \in IndexerLoops : DeleteEvents(d)
    \/ \E d \in IndexerLoops : DeletePortfolio(d)
    \/ \E d \in IndexerLoops : CascadeDelete(d)
    \/ \E d \in IndexerLoops : RewindCursor(d)
    \/ \E d \in IndexerLoops : FetchBatch(d)
    \/ \E d \in IndexerLoops : StoreEvent(d)
    \/ \E d \in IndexerLoops : InsertListing(d)
    \/ \E d \in IndexerLoops : UpdateListing(d)
    \/ \E d \in IndexerLoops : InsertTransaction(d)
    \/ \E d \in IndexerLoops : InsertDeposit(d)
    \/ \E d \in IndexerLoops : UpdateDeposit(d)
    \/ \E d \in IndexerLoops : InsertClaim(d)
    \/ \E d \in IndexerLoops : GetPortfolio(d)
    \/ \E d \in IndexerLoops : WritePortfolio(d)
    \/ \E d \in IndexerLoops : SaveCheckpoint(d)

(* the indexer is started on a chain that has its blocks already, with a
   database backfilled up to the confirmed head *)
IndexerInit ==
    Start(MaxBlock, Backfilled([h \in 0..MaxBlock |-> 0], MaxBlock, MaxBlock))

IndexerSpec == IndexerInit /\ [][IndexerNext]_vars

(* the loops of the user registry, the identity token and the proof
   registry, started by Promise.all *)
RegistryLoops == {Registry, Sbt, Zk}

RegistryNext ==
    \/ PollTick(RegistryLoops)
    \/ \E d \in RegistryLoops : DetectReorg(d)
    \/ \E d \in RegistryLoops : DeleteEvents(d)
    \/ \E d \in RegistryLoops : DeletePortfolio(d)
    \/ \E d \in RegistryLoops : CascadeDelete(d)
    \/ \E d \in RegistryLoops : RewindCursor(d)
    \/ \E d \in RegistryLoops : FetchBatch(d)
    \/ \E d \in RegistryLoops : StoreEvent(d)
    \/ \E d \in RegistryLoops : UpdateUser(d)
    \/ \E d \in RegistryLoops : SaveCheckpoint(d)

RegistryInit == Start(MaxBlock, Fresh)

RegistrySpec == RegistryInit /\ [][RegistryNext]_vars

(* two driver instances of the share contract, started without a lock on
   the checkpoint row, each with a poll timer of its own *)
ShareDrivers == {Share, Second}

TwoDriverNext ==
    \/ \E d \in ShareDrivers : PollTick({d})
    \/ \E d \in ShareDrivers : DetectReorg(d)
    \/ \E d \in ShareDrivers : DeleteEvents(d)
    \/ \E d \in ShareDrivers : DeletePortfolio(d)
    \/ \E d \in ShareDrivers : CascadeDelete(d)
    \/ \E d \in ShareDrivers : RewindCursor(d)
    \/ \E d \in ShareDrivers : FetchBatch(d)
    \/ \E d \in ShareDrivers : StoreEvent(d)
    \/ \E d \in ShareDrivers : InsertProperty(d)
    \/ \E d \in ShareDrivers : UpdateProperties(d)
    \/ \E d \in ShareDrivers : DecreasePortfolio(d)
    \/ \E d \in ShareDrivers : GetPortfolio(d)
    \/ \E d \in ShareDrivers : WritePortfolio(d)
    \/ \E d \in ShareDrivers : SkipLog(d)
    \/ \E d \in ShareDrivers : SaveCheckpoint(d)

(* both instances are started with a fresh database on a chain that has its
   blocks already *)
TwoDriverInit == Start(MaxBlock, Fresh)

TwoDriverSpec == TwoDriverInit /\ [][TwoDriverNext]_vars

(* the poll timer keeps firing and the sequential loop of the share contract
   takes its next step; crashes and failures are not forced and are bounded *)
DriverStep == PollTick({Main}) \/ LoopStep(Main)

LiveSpec == Init /\ [][Next]_vars /\ WF_vars(DriverStep)

(* ------------------------------ properties ----------------------------- *)
(* the checkpoint row of the share contract *)
checkpoint == indexer_state[PropertyShare]
lastProcessedBlock == checkpoint.last_processed_block
lastCheckpointBlock == checkpoint.last_checkpoint_block

Rows(evs) == {evs[k] : k \in 1..Len(evs)}

(* the balances of the derived tables, without the write times *)
Balances(db) ==
    [available_shares |-> db.properties,
     shares_owned |-> [k \in DOMAIN db.portfolio |-> db.portfolio[k].shares_owned],
     listings |-> db.listings,
     transactions |-> db.transactions,
     deposits |-> db.deposits,
     claims |-> db.claims,
     users |-> db.users]

(* the tables of a snapshot *)
DbOf(snap) ==
    [events |-> snap.events, properties |-> snap.properties, portfolio |-> snap.portfolio,
     listings |-> snap.listings, transactions |-> snap.transactions,
     deposits |-> snap.deposits, claims |-> snap.claims, users |-> snap.users]

(* the tables when the batch of the main loop was fetched *)
PreDb == DbOf(pre)

(* the logs the main loop fetched last for the blocks 0..b *)
RECURSIVE FetchedLogs(_)
FetchedLogs(b) == IF b < 0 THEN <<>> ELSE FetchedLogs(b - 1) \o fetched[b].logs

(* the change of a wallet's balance on the chain that an event reports:
   the ERC-1155 balance changes with TransferSingle, a mint being a
   transfer from the zero address *)
Transferred(l, w) ==
    IF l.event_name = "TransferSingle"
    THEN (IF l.args.to = w THEN l.args.value ELSE 0)
         - (IF l.args.from = w THEN l.args.value ELSE 0)
    ELSE 0

RECURSIVE Net(_, _)
Net(ls, w) == IF ls = <<>> THEN 0 ELSE Transferred(Head(ls), w) + Net(Tail(ls), w)

(* the shares the primary purchases among the logs sold *)
RECURSIVE Sold(_)
Sold(ls) ==
    IF ls = <<>> THEN 0
    ELSE (IF Head(ls).event_name = "SharesPurchased" THEN Head(ls).args.amount ELSE 0)
         + Sold(Tail(ls))

Incrementing == {"SharesPurchased", "TransferSingle", "ListingPurchased"}

(* C1: Idempotence. When the handlers have run over a batch, running them
   over the same batch a second time leaves the balances of the derived
   tables (available shares, positions, listings, trades) as they were
   after the first pass. *)
C1_Idempotence ==
    pc[Main] = "save" => Balances(processLogs(Db, logs[Main], NOW)) = Balances(Db)

(* the derived rows the handler of an event writes are in the tables *)
DerivedPersisted(l) ==
    CASE l.event_name = "PropertyCreated" -> l.args.tokenId \in DOMAIN properties
      [] l.event_name = "SharesPurchased" ->
           /\ l.args.tokenId \in DOMAIN properties
           /\ getPortfolio(user_portfolio, l.args.buyer, l.args.tokenId) # NoRow
      [] l.event_name = "TransferSingle" ->
           getPortfolio(user_portfolio, l.args.to, l.args.id) # NoRow
      [] OTHER -> TRUE

(* C2: Durability ordering. In every state, every event that the driver
   fetched in a block at or below the stored last_processed_block has its
   raw event row, its handler has made its derived writes, and the rows
   those writes created are in the tables: the row of a created property,
   the position of a buyer, the position of the receiver of a transfer. *)
C2_DurabilityOrdering ==
    LET ls == SelectSeq(FetchedLogs(lastProcessedBlock), Decodable)
    IN \A k \in 1..Len(ls) :
          /\ Recorded(blockchain_events, ls[k])
          /\ applied[Key(ls[k])] >= 1
          /\ DerivedPersisted(ls[k])

(* C3 as stated: last_checkpoint_block <= last_processed_block in every
   reachable state (checked for checkpoints taken above the genesis block). *)
C3_CheckpointInvariant ==
    lastCheckpointBlock > 0 => lastCheckpointBlock <= lastProcessedBlock

(* C3 amended: after initialisation and after every successful batch
   last_checkpoint_block <= last_processed_block; after a rollback
   last_processed_block = last_checkpoint_block - 1 until the next batch is
   saved. *)
C3_CheckpointInvariantAmended ==
    /\ lastWrite \in {"init", "batch"} => lastCheckpointBlock <= lastProcessedBlock
    /\ lastWrite = "rollback" => lastProcessedBlock = lastCheckpointBlock - 1

C3_Witness ==
    /\ lastWrite = "batch"
    /\ deleted > 0
    /\ lastCheckpointBlock > 0

(* C4: Reorg recovery. A reorg check that finds the chain's hash at
   last_checkpoint_block different from the stored hash starts the
   rollback; the delete of the rollback removes exactly the raw events with
   block_number >= last_checkpoint_block and keeps the others in place; the
   last step of the rollback sets last_processed_block to
   last_checkpoint_block - 1 and leaves the checkpoint where it is, with no
   raw event at or above it. *)
C4_ReorgRecovery ==
    [][/\ (/\ pc[Main] = "detect" /\ pc'[Main] \in {"compute", "delete_events"}
           /\ getBlockHash(chain, lastCheckpointBlock) # checkpoint.last_checkpoint_hash)
          => (pc'[Main] = "delete_events" /\ reorgDetected'[Main])
       /\ (pc[Main] = "delete_events" /\ pc'[Main] = "delete_portfolio")
          => /\ blockchain_events' =
                   SelectSeq(blockchain_events,
                             LAMBDA e : e.block_number < lastCheckpointBlock)
             /\ Len(blockchain_events') = Cardinality(Rows(blockchain_events'))
       /\ (pc[Main] = "rewind" /\ pc'[Main] = "compute")
          => /\ checkpoint'.last_processed_block = lastCheckpointBlock - 1
             /\ checkpoint'.last_checkpoint_block = lastCheckpointBlock
             /\ \A e \in Rows(blockchain_events') :
                   e.block_number < lastCheckpointBlock]_vars

C4_Witness ==
    /\ pc[Main] = "compute"
    /\ reorgDetected[Main]
    /\ deleted > 0
    /\ Len(blockchain_events) > 0
    /\ lastCheckpointBlock > 0
    /\ lastProcessedBlock = lastCheckpointBlock - 1

(* C5 as stated: a reorg check that runs after a reorganisation replaced any
   block at or below last_processed_block detects it and rolls back. *)
C5_ReorgDetection ==
    [][(/\ pc[Main] = "detect" /\ pc'[Main] \in {"compute", "delete_events"}
        /\ reorgedProcessed)
       => reorgDetected'[Main]]_vars

(* C5 amended: a reorg check that runs after a reorganisation replaced the
   block at last_checkpoint_block, the checkpoint row not having been
   rewritten since, detects it and starts the rollback. *)
C5_ReorgDetectionAmended ==
    [][(/\ pc[Main] = "detect" /\ pc'[Main] \in {"compute", "delete_events"}
        /\ reorgedCheckpoint)
       => (reorgDetected'[Main] /\ pc'[Main] = "delete_events")]_vars

C5_Witness ==
    /\ pc[Main] = "compute"
    /\ reorgDetected[Main]
    /\ reorgedCheckpoint
    /\ deleted > 0

(* C6: Consistency after reorg. When a cycle has rolled back a detected
   reorg and reprocessed the rewound range, and the chain has not changed
   since the check, the raw events at or below last_processed_block are
   exactly the events of the canonical chain up to that height. *)
C6_ConsistencyAfterReorg ==
    (pc[Main] = "idle" /\ reorgDetected[Main] /\ stable /\ lastWrite = "batch")
    => {e \in Rows(blockchain_events) : e.block_number <= lastProcessedBlock} =
       {Row(l) : l \in {m \in Rows(getLogs(chain, PropertyShare, 0, lastProcessedBlock)) :
                           Decodable(m)}}

(* C7: Uniqueness. No two raw event rows share (transaction_hash,
   log_index), and the handler of an event that increments a balance makes
   its derived writes at most once for one physical event. *)
C7_Uniqueness ==
    /\ \A i, j \in 1..Len(blockchain_events) :
          i # j => Key(blockchain_events[i]) # Key(blockchain_events[j])
    /\ \A e \in Rows(blockchain_events) :
          e.event_name \in Incrementing => applied[Key(e)] <= 1

(* C8: Replay equivalence. Whenever a batch has been processed and its
   checkpoint is saved (in a cycle that rolled nothing back), the balances
   of the derived tables equal those of the tables rebuilt by replaying the
   stored raw events in stored order from the empty state. *)
C8_ReplayEquivalence ==
    [][(/\ pc[Main] = "save" /\ pc'[Main] = "idle" /\ lastWrite' = "batch"
        /\ faults' = faults /\ ~reorgDetected[Main])
       => (Balances(Db) = Balances(Replay(blockchain_events, NOW)))']_vars

(* C9: Rollback of derived state. Right after a rollback to a checkpoint
   the balances of the derived tables equal those of the tables rebuilt by
   replaying the remaining raw events (those below last_checkpoint_block). *)
C9_RollbackDerived ==
    (pc[Main] = "compute" /\ reorgDetected[Main] /\ lastCheckpointBlock > 0)
    => Balances(Db) = Balances(Replay(blockchain_events, NOW))

(* C10 as stated: after a derived write failed, raw events, derived tables
   and checkpoint all equal their values before the batch started. *)
C10_BatchAtomicity == pc[Main] = "failed" => Snapshot = pre

(* the state a run without the crash reaches: the batch applied once to the
   tables the crashed batch started from, and its checkpoint saved *)
NoCrashRun ==
    LET r == processLogs(DbOf(crashPre), logs[Main], NOW)
    IN [state |-> advance(crashPre.state, chain,
                          crashPre.state.last_processed_block + 1, toBlock[Main], NOW),
        events |-> r.events, balances |-> Balances(r)]

ThisRun == [state |-> checkpoint, events |-> blockchain_events, balances |-> Balances(Db)]

(* C11: Crash before checkpoint save. When the driver crashed after a batch
   was recorded and applied and before its checkpoint was saved, and the
   restarted driver has fetched the range again, handled it and saved the
   checkpoint (no reorganisation, rollback or failed write in between), the
   raw events, the balances of the derived tables and the checkpoint equal
   those of a run without the crash. *)
C11_CrashBeforeSave ==
    [][(/\ pc[Main] = "save" /\ pc'[Main] = "idle" /\ lastWrite' = "batch"
        /\ faults' = faults /\ crashPre # NoSnapshot)
       => ThisRun' = NoCrashRun]_vars

(* C12: Recovery from a failed derived write. When the retry after a failed
   application-table update has handled the log whose update failed, the
   handler of that log has made its derived writes exactly once. *)
C12_FailedWriteRecovery ==
    [][(/\ pc[Main] = "process" /\ idx'[Main] = idx[Main] + 1 /\ failedKey # NoKey
        /\ Key(Cur(Main)) = failedKey)
       => applied'[failedKey] = 1]_vars

(* position of a log or of an event key on the chain: (blockNumber, logIndex) *)
Pos(e) == <<e.block_number, e.log_index>>
KeyPos(k) == <<k[1][1], k[2]>>
PosBefore(p, q) == p[1] < q[1] \/ (p[1] = q[1] /\ p[2] < q[2])

(* C13: Ordering. Every log whose handler the driver starts has a greater
   (blockNumber, logIndex) than every log it applied before, within a batch
   and across batches; logs whose rows a rollback removed do not count. *)
C13_Ordering ==
    [][(/\ pc[Main] = "process" /\ hstep[Main] = 1 /\ hstep'[Main] = 2
        /\ Decodable(Cur(Main)))
       => \A k \in AllKeys : applied[k] > 0 => PosBefore(KeyPos(k), Pos(Cur(Main)))]_vars

(* C14: Decode failure in a batch. A log that fails to decode gets no raw
   event row; when the handlers of a batch are through, every other log of
   the batch is recorded and applied; and last_processed_block is at or past
   the block of a log that failed to decode only when the dead-letter record
   of that log exists. *)
C14_DecodeFailure ==
    /\ \A e \in Rows(blockchain_events) : Decodable(e)
    /\ pc[Main] = "save" =>
          \A k \in 1..Len(logs[Main]) :
             Decodable(logs[Main][k]) =>
                /\ Recorded(blockchain_events, logs[Main][k])
                /\ applied[Key(logs[Main][k])] >= 1
    /\ \A l \in Rows(FetchedLogs(lastProcessedBlock)) :
          ~Decodable(l) => l \in dead_letters

C14_Witness ==
    /\ pc[Main] = "idle"
    /\ lastWrite = "batch"
    /\ \E l \in dead_letters :
          /\ l.block_number <= lastProcessedBlock
          /\ \E e \in Rows(blockchain_events) :
                e.block_number = l.block_number /\ e.log_index > l.log_index

(* C15: Basic sync. When a cycle has fetched a range, handled its logs and
   saves the checkpoint, every decodable log of the range has its raw event
   row (same block number and log index), each wallet's position differs
   from the one it had when the range was fetched by the shares the
   transfers of the range moved (the sender's lower, the receiver's higher),
   the property's available shares are lower by the shares sold, and
   last_processed_block is at or past the block of every log of the range. *)
C15_BasicSync ==
    [][(/\ pc[Main] = "save" /\ pc'[Main] = "idle" /\ lastWrite' = "batch"
        /\ faults' = faults)
       => LET evs == SelectSeq(logs[Main], Decodable)
          IN /\ \A k \in 1..Len(evs) :
                   \E e \in Rows(blockchain_events') :
                      /\ e.block_number = evs[k].block_number
                      /\ e.log_index = evs[k].log_index
                      /\ e.transaction_hash = evs[k].transaction_hash
                      /\ e.args = evs[k].args
             /\ \A w \in Wallets :
                   user_portfolio'[<<w, 1>>].shares_owned =
                      pre.portfolio[<<w, 1>>].shares_owned + Net(evs, w)
             /\ IF 1 \in DOMAIN pre.properties
                THEN properties' = [pre.properties EXCEPT ![1] = @ - Sold(evs)]
                ELSE IF \E k \in 1..Len(evs) : evs[k].event_name = "PropertyCreated"
                     THEN properties' = [t \in {1} |-> TotalShares - Sold(evs)]
                     ELSE properties' = pre.properties
             /\ \A k \in 1..Len(logs[Main]) :
                   checkpoint'.last_processed_block >= logs[Main][k].block_number]_vars

(* C16: Confirmation depth. No raw event row and no applied event belongs to
   a block higher than the latest chain block minus the confirmation depth,
   and after every successful batch last_processed_block is at most the
   latest chain block minus the confirmation depth. *)
C16_ConfirmationDepth ==
    /\ \A e \in Rows(blockchain_events) : e.block_number <= latest - ConfirmationDepth
    /\ \A k \in AllKeys : applied[k] > 0 => KeyPos(k)[1] <= latest - ConfirmationDepth
    /\ lastWrite = "batch" => lastProcessedBlock <= latest - ConfirmationDepth

C16_Witness ==
    /\ lastWrite = "batch"
    /\ pc[Main] = "idle"
    /\ lastProcessedBlock = latest - ConfirmationDepth
    /\ \E e \in Rows(blockchain_events) : e.block_number = lastProcessedBlock

(* C17: Progress under transient failures. With the poll timer firing and
   failures that eventually stop, last_processed_block eventually reaches
   every confirmed block height h (h <= latest chain block - confirmation
   depth). The chain head never gets lower, so a height once confirmed
   stays confirmed and "once h is confirmed, eventually
   last_processed_block >= h" is the same as "again and again, h is not
   confirmed or last_processed_block >= h". *)
C17_Progress ==
    \A h \in 0..MaxBlock :
       []<>(h <= latest - ConfirmationDepth => lastProcessedBlock >= h)

C17_Witness ==
    /\ faults > 0
    /\ pc[Main] = "idle"
    /\ lastWrite = "batch"
    /\ latest = MaxBlock
    /\ lastProcessedBlock = latest - ConfirmationDepth

(* all logs of the blocks 1..h of the chain, of every contract, in chain order *)
RECURSIVE AllLogs(_, _)
AllLogs(ch, h) == IF h <= 0 THEN <<>> ELSE AllLogs(ch, h - 1) \o BlockLogs(ch, h)

(* the decodable events of the canonical chain, in chain order *)
ChainEvents == SelectSeq(AllLogs(chain, latest), Decodable)

(* positions of two transfers of which the first one moves shares into the
   wallet that the second one moves shares out of *)
EventPairs(evs) ==
    {p \in (1..Len(evs)) \X (1..Len(evs)) :
        /\ p[1] < p[2]
        /\ evs[p[1]].event_name = "TransferSingle"
        /\ evs[p[2]].event_name = "TransferSingle"
        /\ evs[p[1]].args.to = evs[p[2]].args.from}

(* the positions of the wallets after the handlers ran over two events, from
   empty tables *)
ApplyBoth(first, second) ==
    LET r == Balances(processLogs(EmptyDb, <<first, second>>, NOW)).shares_owned
    IN [k \in Wallets \X Tokens |-> r[k]]

(* C18: Ordering sensitivity. Whenever the chain holds two transfers of
   which the first moves shares into the wallet the second moves shares
   out of, there are two such events that end in different positions when
   applied out of order than when applied in order, and the in-order
   positions are the ones the chain expects (the net shares the two events
   moved) while the out-of-order ones are not. *)
C18_OrderingSensitivity ==
    LET evs == ChainEvents
    IN EventPairs(evs) # {} =>
          \E p \in EventPairs(evs) :
             LET e1 == evs[p[1]]
                 e2 == evs[p[2]]
                 expected == [k \in Wallets \X Tokens |-> Net(<<e1, e2>>, k[1])]
             IN /\ ApplyBoth(e2, e1) # ApplyBoth(e1, e2)
                /\ ApplyBoth(e1, e2) = expected
                /\ ApplyBoth(e2, e1) # expected

C18_Witness ==
    /\ pc[Main] = "idle"
    /\ lastWrite = "batch"
    /\ LET evs == ChainEvents
       IN \E p \in EventPairs(evs) :
             /\ ApplyBoth(evs[p[2]], evs[p[1]]) # ApplyBoth(evs[p[1]], evs[p[2]])
             /\ Recorded(blockchain_events, evs[p[1]])
             /\ Recorded(blockchain_events, evs[p[2]])

Reverse(ls) == [i \in 1..Len(ls) |-> ls[Len(ls) + 1 - i]]

(* C19: Convergence of handlers. Applying the events of the chain in another
   order, or applying them repeatedly, ends in the same balances of the
   derived tables as applying each event once in chain order. *)
C19_Convergence ==
    LET once == Balances(processLogs(EmptyDb, ChainEvents, NOW))
    IN /\ Balances(processLogs(EmptyDb, Reverse(ChainEvents), NOW)) = once
       /\ Balances(processLogs(EmptyDb, ChainEvents \o ChainEvents, NOW)) = once

IsPrefix(a, b) == Len(a) <= Len(b) /\ SubSeq(b, 1, Len(a)) = a

(* C20: RawEvent immutability. Every step either leaves the stored rows as
   they are and at most appends rows (no update, no delete), or is the
   delete of the rollback, which removes only rows with block_number >=
   last_checkpoint_block and leaves the other rows unchanged. *)
C20_Immutability ==
    [][\/ IsPrefix(blockchain_events, blockchain_events')
       \/ /\ pc[Main] = "delete_events"
          /\ reorgDetected[Main]
          /\ blockchain_events' =
                SelectSeq(blockchain_events, LAMBDA e : e \in Rows(blockchain_events'))
          /\ \A e \in Rows(blockchain_events) \ Rows(blockchain_events') :
                e.block_number >= lastCheckpointBlock]_vars

C20_Witness ==
    /\ pc[Main] = "save"
    /\ reorgDetected[Main]
    /\ deleted > 0
    /\ Len(blockchain_events) > Len(pre.events)
    /\ Len(pre.events) > 0


(* ------------------------------ C21 ------------------------------------ *)
Data(s) == [events |-> s.db.events, balances |-> Balances(s.db)]

(* C21: a manual backfill over a range a..b leaves the raw events and the
   derived tables in the state the polling driver reaches after processing
   the blocks up to b, also when a part of a..b was indexed before: after a
   run of the polling driver without reorg, failure or crash, the backfill of
   a..b from the current database equals the processing of 0..b from the
   empty database *)
C21_BackfillEquivalence ==
    (pc[Main] = "idle" /\ lastWrite = "batch" /\ forks = 0 /\ faults = 0) =>
        \A a \in 0..(lastProcessedBlock + 1) : \A b \in lastProcessedBlock..latest :
            Data(backfill([state |-> checkpoint, db |-> Db], chain, PropertyShare, a, b,
                          latest)) =
                Data(backfill([state |-> ZeroCheckpoint, db |-> EmptyDb], chain,
                              PropertyShare, 0, b, latest))


(* ------------------------------ C22 ------------------------------------ *)
(* the tables the two loops are started on *)
MarketInitDb == Backfilled([h \in 0..MaxBlock |-> 0], 1, 2).db

(* the tables after the loop of the share contract handled the logs of its
   batch and then the loop of the marketplace handled the logs of its own *)
OneAfterTheOther(fromBlock, to) ==
    processLogs(processLogs(MarketInitDb, getLogs(chain, PropertyShare, fromBlock, to), NOW),
                getLogs(chain, Marketplace, fromBlock, to), NOW)

(* C22: the derived tables do not depend on how the loops of the two
   contracts interleave: when both loops have handled the same range in
   their first cycle (no reorganisation, no request to the API route), the
   balances are those of running the two batches one after the other *)
C22_DisjointNamespaces ==
    (/\ pc[Share] = "idle" /\ pc[Market] = "idle"
     /\ cycles = 1 /\ forks = 0 /\ posted = {}
     /\ indexer_state[PropertyShare].last_processed_block =
           indexer_state[Marketplace].last_processed_block)
    => Balances(Db) =
          Balances(OneAfterTheOther(2, indexer_state[PropertyShare].last_processed_block))


(* ------------------------------ C23 ------------------------------------ *)
BlocksOf(ls) == {ls[n].block_number : n \in 1..Len(ls)}

(* C23: a successful cycle that starts at checkpoint p fetches the blocks
   p+1..toBlock with toBlock = min(latest - confirmationDepth, p +
   maxBatchSize), skips none of them (the fetched logs come from every block
   of the range that holds a log of the contract), handles every log of the
   range and saves last_processed_block = toBlock *)
C23_BatchRange ==
    [][/\ (pc[Main] = "compute" /\ pc'[Main] \in {"process", "save"}) =>
            /\ toBlock'[Main] = Min(latest - ConfirmationDepth,
                                    lastProcessedBlock + MaxBatchSize)
            /\ BlocksOf(logs'[Main]) =
                  {h \in (lastProcessedBlock + 1)..toBlock'[Main] :
                      LogsAt(chain, PropertyShare, h) # <<>>}
       /\ (pc[Main] = "save" /\ indexer_state' # indexer_state) =>
            /\ idx[Main] = Len(logs[Main]) + 1
            /\ \A n \in 1..Len(logs[Main]) :
                   Decodable(logs[Main][n]) => Recorded(blockchain_events, logs[Main][n])
            /\ checkpoint'.last_processed_block = toBlock[Main]
            /\ toBlock[Main] > lastProcessedBlock]_vars

C23_Witness ==
    /\ pc[Main] = "idle"
    /\ lastWrite = "batch"
    /\ lastProcessedBlock = pre.state.last_processed_block + MaxBatchSize
    /\ Cardinality(BlocksOf(logs[Main])) >= 2
    /\ \A n \in 1..Len(logs[Main]) :
          Decodable(logs[Main][n]) => Recorded(blockchain_events, logs[Main][n])


(* ------------------------------ C24 ------------------------------------ *)
(* C24: when the computed toBlock is not above last_processed_block and no
   reorg was detected, the cycle fetches no logs and ends with the checkpoint
   row, the raw events and the derived tables unchanged *)
C24_NoNewBlocks ==
    [][(/\ pc[Main] = "compute"
        /\ ~reorgDetected[Main]
        /\ Min(latest - ConfirmationDepth, lastProcessedBlock + MaxBatchSize)
               <= lastProcessedBlock)
       => /\ dbVars' = dbVars
          /\ logs'[Main] = <<>>
          /\ pc'[Main] \in {"compute", "idle"}]_vars

C24_Witness ==
    /\ pc[Main] = "idle"
    /\ faults = 0
    /\ lastWrite = "batch"
    /\ logs[Main] = <<>>
    /\ ~reorgDetected[Main]
    /\ lastProcessedBlock = latest - ConfirmationDepth
    /\ Len(blockchain_events) > 0


(* ------------------------------ C25 ------------------------------------ *)
dataVars == <<blockchain_events, properties, user_portfolio, marketplace_listings,
              marketplace_transactions, rent_deposits, reward_claims, users>>

(* C25 as stated: the checkpoint row changes only in the save step of a
   batch, which comes after every log of the batch was handled and changes
   no other table, and in the last step of a rollback, which comes after
   the deletes and changes no other table; every save step changes it, and
   so does the write of every rollback (of those that follow a mismatch
   with a stored checkpoint hash, the rollbacks of a reorganisation); no
   step of a cycle that fails, crashes or finds no new blocks changes it *)
C25_CheckpointWrites ==
    [][/\ (indexer_state' # indexer_state) =>
            \/ /\ pc[Main] = "save" /\ pc'[Main] = "idle"
               /\ idx[Main] = Len(logs[Main]) + 1
               /\ \A n \in 1..Len(logs[Main]) :
                      Decodable(logs[Main][n]) =>
                         Recorded(blockchain_events, logs[Main][n])
               /\ dataVars' = dataVars
               /\ lastWrite' = "batch"
            \/ /\ pc[Main] = "rewind" /\ pc'[Main] = "compute"
               /\ reorgDetected[Main]
               /\ \A e \in Rows(blockchain_events) : e.block_number < lastCheckpointBlock
               /\ dataVars' = dataVars
               /\ lastWrite' = "rollback"
       /\ (/\ pc[Main] = "save" /\ lastWrite' = "batch" /\ pc'[Main] = "idle"
           /\ faults' = faults) =>
            indexer_state' # indexer_state
       /\ (/\ pc[Main] = "rewind" /\ pc'[Main] = "compute"
           /\ loaded[Main].last_checkpoint_hash # NoHash) =>
            indexer_state' # indexer_state
       /\ (faults' # faults \/ pc'[Main] = "failed" \/ pc[Main] = "failed"
              \/ (pc[Main] = "compute" /\ pc'[Main] = "idle")) =>
            indexer_state' = indexer_state]_vars


(* ------------------------------ C26 ------------------------------------ *)
(* C26: when the chain's hash at last_checkpoint_block equals the stored
   checkpoint hash, the reorg detector deletes no raw event and no derived
   row, does not rewind the cursor and starts no rollback, and the fetch
   that follows starts at last_processed_block + 1: it returns no log of a
   block at or below the cursor and begins with the logs of block
   last_processed_block + 1 when that block holds a log of the contract *)
C26_NoFalseRollback ==
    [][/\ (/\ pc[Main] = "detect" /\ pc'[Main] \in {"compute", "delete_events"}
           /\ getBlockHash(chain, lastCheckpointBlock) = checkpoint.last_checkpoint_hash)
          => (dbVars' = dbVars /\ ~reorgDetected'[Main] /\ pc'[Main] = "compute")
       /\ (pc[Main] = "compute" /\ ~reorgDetected[Main] /\ pc'[Main] = "process")
          => /\ \A n \in 1..Len(logs'[Main]) :
                   logs'[Main][n].block_number > lastProcessedBlock
             /\ LogsAt(chain, PropertyShare, lastProcessedBlock + 1) # <<>> =>
                   logs'[Main][1].block_number = lastProcessedBlock + 1]_vars

C26_Witness ==
    /\ pc[Main] = "process"
    /\ ~reorgDetected[Main]
    /\ forks > 0
    /\ checkpoint.last_checkpoint_hash = getBlockHash(chain, lastCheckpointBlock)
    /\ Len(blockchain_events) > 0
    /\ logs[Main][1].block_number = lastProcessedBlock + 1


(* ------------------------------ C27 ------------------------------------ *)
(* C27: in every reachable state last_checkpoint_block is a multiple of the
   checkpoint interval, and a stored checkpoint hash is a hash the chain
   reported for exactly that height: the hash of a block of that height on a
   fork that existed, and the chain's present hash at that height unless a
   reorg has replaced the block since the checkpoint was taken *)
C27_CheckpointAlignment ==
    /\ lastCheckpointBlock % CheckpointInterval = 0
    /\ checkpoint.last_checkpoint_hash # NoHash =>
          /\ checkpoint.last_checkpoint_hash[1] = lastCheckpointBlock
          /\ checkpoint.last_checkpoint_hash[2] \in 0..forks
          /\ ~reorgedCheckpoint =>
                 checkpoint.last_checkpoint_hash = getBlockHash(chain, lastCheckpointBlock)

C27_Witness ==
    /\ lastCheckpointBlock > 0
    /\ lastWrite = "batch"
    /\ checkpoint.last_checkpoint_hash = <<lastCheckpointBlock, forks>>
    /\ forks > 0


(* ------------------------------ C28 ------------------------------------ *)
(* C28: after every saved batch last_processed_block is at most one
   checkpoint interval above last_checkpoint_block, and the blocks
   last_checkpoint_block..last_processed_block that a rollback replays are
   at most as many as the interval, also for batches larger than it *)
C28_BoundedReplay ==
    /\ lastWrite = "batch" => lastProcessedBlock - lastCheckpointBlock <= CheckpointInterval
    /\ lastProcessedBlock - lastCheckpointBlock + 1 <= CheckpointInterval

C28_Witness ==
    /\ pc[Main] = "idle"
    /\ lastWrite = "batch"
    /\ MaxBatchSize > CheckpointInterval
    /\ lastProcessedBlock - pre.state.last_processed_block > CheckpointInterval
    /\ lastProcessedBlock >= lastCheckpointBlock
    /\ lastCheckpointBlock > 0


(* ------------------------------ C29 ------------------------------------ *)
(* the decodable logs of the batch that were, or were not, recorded when the
   batch was fetched *)
DuplicateLogs ==
    SelectSeq(logs[Main], LAMBDA l : Decodable(l) /\ Recorded(pre.events, l))
NewLogs ==
    SelectSeq(logs[Main], LAMBDA l : Decodable(l) /\ ~Recorded(pre.events, l))

(* C29: when a batch holds both recorded and new events, each duplicate
   insert is a no-op and no error, the new events are recorded and applied,
   the batch is committed and the checkpoint advances: after the save the raw
   event table is the table at the fetch followed by the rows of the new
   events in order, every new event was applied, and last_processed_block is
   the end of the batch *)
C29_DuplicateSilentSkip ==
    (/\ pc[Main] = "idle" /\ lastWrite = "batch"
     /\ DuplicateLogs # <<>> /\ NewLogs # <<>>)
    => /\ blockchain_events = pre.events \o [n \in 1..Len(NewLogs) |-> Row(NewLogs[n])]
       /\ \A n \in 1..Len(NewLogs) : applied[Key(NewLogs[n])] >= 1
       /\ lastProcessedBlock = toBlock[Main]
       /\ lastProcessedBlock > pre.state.last_processed_block

C29_Witness ==
    /\ pc[Main] = "idle" /\ lastWrite = "batch"
    /\ DuplicateLogs # <<>> /\ NewLogs # <<>>
    /\ Len(blockchain_events) = Len(pre.events) + Len(NewLogs)
    /\ lastProcessedBlock = toBlock[Main]


(* ------------------------------ C30 ------------------------------------ *)
(* C30: an RPC call that keeps failing is retried a bounded number of times
   within one cycle; no failed attempt changes the checkpoint row, the raw
   events or the derived tables; after the last attempt the cycle ends with
   the driver waiting for the next poll tick, which starts a new cycle *)
C30_BoundedRetry ==
    [][/\ attempts'[Main] > attempts[Main] =>
            /\ attempts'[Main] <= MaxAttempts
            /\ dbVars' = dbVars
            /\ pc'[Main] = IF attempts'[Main] = MaxAttempts THEN "idle" ELSE "compute"
       /\ (pc[Main] = "idle" /\ attempts[Main] = MaxAttempts /\ pc'[Main] # "idle") =>
            (pc'[Main] = "detect" /\ attempts'[Main] = 0 /\ dbVars' = dbVars)]_vars

C30_Witness ==
    /\ pc[Main] = "idle"
    /\ attempts[Main] = MaxAttempts
    /\ lastWrite = "batch"
    /\ Len(blockchain_events) > 0
    /\ lastProcessedBlock < latest - ConfirmationDepth


(* ------------------------------ C32 ------------------------------------ *)
(* C32: from the zero-valued checkpoint (block 0, no hash) the reorg
   detector of no loop reports a reorg or rolls anything back, and
   last_processed_block of every contract is at least 0 in every reachable
   state *)
C32_FirstRun ==
    \A d \in RegistryLoops :
       /\ indexer_state[Contract(d)].last_processed_block >= 0
       /\ loaded[d].last_checkpoint_hash = NoHash => ~reorgDetected[d]


(* ------------------------------ C33 ------------------------------------ *)
(* C33: last_processed_block never decreases except in a reorg rollback:
   no other step of the driver lowers it, and a manual backfill over any
   range a..b of the chain, run while the driver is idle, leaves a cursor
   that is not below the present one *)
C33_CursorMonotonic ==
    [][/\ checkpoint'.last_processed_block < lastProcessedBlock =>
            (pc[Main] = "rewind" /\ reorgDetected[Main])
       /\ pc[Main] = "idle" =>
            \A a \in 0..latest : \A b \in a..latest :
                backfill([state |-> checkpoint, db |-> Db], chain, PropertyShare, a, b,
                         latest).state.last_processed_block >= lastProcessedBlock]_vars


(* ------------------------------ C35 ------------------------------------ *)
(* C35: the checkpoint hash saved for a height is the hash of the block
   whose logs were fetched and applied for that height: after a saved batch,
   in a run without crash or failure, every raw event stored for block
   last_checkpoint_block comes from the block (fork) of the stored
   checkpoint hash *)
C35_CheckpointHashFork ==
    (/\ pc[Main] = "idle" /\ lastWrite = "batch" /\ faults = 0
     /\ checkpoint.last_checkpoint_hash # NoHash)
    => \A n \in 1..Len(blockchain_events) :
          blockchain_events[n].block_number = lastCheckpointBlock =>
              blockchain_events[n].transaction_hash[2] = checkpoint.last_checkpoint_hash[2]


(* ------------------------------ C37 ------------------------------------ *)
(* C37: the driver does not roll back for ever after a reorg: with the
   bounded number of reorgs, crashes and failures of the model, again and
   again the stored checkpoint hash is the chain's hash at the checkpoint
   height and last_processed_block is at or above that height, as soon as
   the chain has a confirmed block to process *)
C37_NoRollbackLivelock ==
    []<>(\/ latest < ConfirmationDepth
         \/ /\ checkpoint.last_checkpoint_hash = getBlockHash(chain, lastCheckpointBlock)
            /\ lastProcessedBlock >= lastCheckpointBlock)

C37_Witness ==
    /\ pc[Main] = "idle"
    /\ lastWrite = "batch"
    /\ reorgDetected[Main]
    /\ forks > 0 /\ faults > 0
    /\ lastCheckpointBlock > 0
    /\ checkpoint.last_checkpoint_hash = <<lastCheckpointBlock, forks>>
    /\ checkpoint.last_checkpoint_hash = getBlockHash(chain, lastCheckpointBlock)
    /\ lastProcessedBlock >= lastCheckpointBlock


(* ------------------------------ C31 ------------------------------------ *)
(* the raw events of one contract *)
EventsOf(evs, contract) == SelectSeq(evs, LAMBDA e : e.contract_address = contract)

(* no event of the contract on the chain is missing at or below its cursor *)
Durable(evs, ch, contract, st) ==
    \A l \in Rows(getLogs(ch, contract, 0, st.last_processed_block)) :
       Decodable(l) => Recorded(evs, l)

(* C31: the delete of a rollback that the loop of one contract performs
   after a reorg (its stored checkpoint hash differs from the chain's)
   deletes no raw event of another watched contract and does not change the
   cursor of that contract, so an event log of that contract that was
   complete up to its cursor before the delete is complete after it *)
C31_RollbackScoping ==
    [][\A d \in IndexerLoops : \A other \in IndexerLoops \ {d} :
          (/\ pc[d] = "delete_events" /\ pc'[d] = "delete_portfolio"
           /\ loaded[d].last_checkpoint_hash # NoHash
           /\ Durable(blockchain_events, chain, Contract(other),
                      indexer_state[Contract(other)]))
          => /\ EventsOf(blockchain_events', Contract(other)) =
                   EventsOf(blockchain_events, Contract(other))
             /\ indexer_state'[Contract(other)] = indexer_state[Contract(other)]
             /\ Durable(blockchain_events', chain', Contract(other),
                        indexer_state'[Contract(other)])]_vars


(* ------------------------------ C34 ------------------------------------ *)
(* C34: with two driver instances on the PropertyShare contract and no lock
   on the checkpoint row, in a run without reorg, crash or failure the
   handler of an event that increments a balance makes its derived writes
   at most once for every event, and no saved checkpoint is ahead of the
   stored events *)
C34_TwoDrivers ==
    /\ \A e \in Rows(blockchain_events) :
          e.event_name \in Incrementing => applied[Key(e)] <= 1
    /\ \A l \in Rows(getLogs(chain, PropertyShare, 0, lastProcessedBlock)) :
          Decodable(l) => Recorded(blockchain_events, l)


(* ------------------------------ C36 ------------------------------------ *)
(* the database after every event of the blocks 1..h of every contract has
   been processed once, in chain order *)
AllProcessed(ch, h) == processLogs(EmptyDb, AllLogs(ch, h), 0)

(* the shares a wallet has on the chain at block h *)
ChainBalance(ch, holder, h) == Net(AllLogs(ch, h), holder)

(* C36: once every event up to block h of every contract has been
   processed, the derived position of each holder equals the holder's
   balance on the chain at block h *)
C36_DerivedEqualsChain ==
    pc[Main] = "compute" =>
        \A h \in 0..latest : \A holder \in Holders : \A t \in Tokens :
            getPortfolio(AllProcessed(chain, h).portfolio, holder, t).shares_owned
                = ChainBalance(chain, holder, h)
====
